---- MODULE Spec2Model ----
(***************************************************************************)
(* A model of four parts of the router repository:                         *)
(*   - the file-route generator (packages/router-generator/src/generator.ts)*)
(*   - the navigation blocker hook useBlocker                               *)
(*   - the match rendering layer (packages/react-router/src/Matches.tsx)    *)
(*   - the Transitioner of RouterProvider.tsx                               *)
(* Each part has its own variables and its own specification; the          *)
(* variables of the other parts stay at their initial values.              *)
(***************************************************************************)
EXTENDS Integers, Sequences, FiniteSets, TLC

VARIABLES
  \* ---- one generator run, step by step (SpecTree) ----
  routeFiles,        \* the route files on disk, in the order readdir lists them
  tpc,               \* position of the run: "scan" | "sort" | "handle" | "done"
  scanned,           \* getRouteNodes' routeNodes, in push order
  preRouteNodes,     \* the sorted, filtered list of generator()
  cursor,            \* forEach index into preRouteNodes
  build,             \* [routeNodes, routeTree, routePiecesByPath] of generator()
  \* ---- one call of hasParentRoute, recursion by recursion (SpecParent) ----
  hpRoutes,          \* the routes argument
  hpChecked,         \* routePathToCheck of the outermost call
  hpPath,            \* routePathToCheck of the call that is running
  hpCalls,           \* calls of hasParentRoute made so far, the outermost included
  hpReturn,          \* <<>> while the call runs, then <<what it returned>>
  \* ---- overlapping generator() invocations (SpecGen) ----
  genDir,            \* the route files on disk, in the order readdir lists them
  latestTask,        \* let latestTask
  first,             \* let first
  skipMessage,       \* let skipMessage
  generatedRouteTree,\* content of config.generatedRouteTree: <<>> when missing, else <<content>>
  runs,              \* the invocations, by taskId
  \* ---- useBlocker and the navigation attempts it answers (SpecBlocker) ----
  blockerFn,         \* whether a blockerFn is given
  blockerCondition,  \* the condition (truthy or falsy)
  promises,          \* every promise made by createPromise, in creation order
  promise,           \* the hook state `promise`: an index into promises
  resolver,          \* the hook state `resolver`: its status, and the promise its
                     \* proceed and reset resolve
  returned,          \* the promises whose resolver a render has returned
  updates,           \* state updates queued for the next render
  effectDue,         \* the effect has to run (mount, or `promise` changed)
  blocker,           \* the promise of the blockerFnComposed registered by
                     \* history.block, NoBlocker when none is registered
  attempts,          \* the navigation attempts
  location,          \* the router location: the attempt committed last, 0 at start
  \* ---- the rendering of the matches (SpecMatches) ----
  routeOptions,      \* route.options of router.routesById, by routeId
  routerOptions,     \* router.options
  state,             \* router.state: matches and pendingMatches
  stale,             \* the state changed since the last render
  renderedMatches,   \* the matches the last render selected
  elements,          \* what the last render left on the screen, root first
  outletContext,     \* React.useContext(matchContext) of one Outlet
  outletChild,       \* what that Outlet selected and rendered last: <<>> before
                     \* its first render
  \* ---- the Transitioner (SpecTransitioner) ----
  hasUseTransition,  \* React.useTransition exists
  store,             \* router.__store.state: the fields the Transitioner picks
  mounted,           \* the Transitioner has rendered once
  isPending,         \* React has a transition pending
  rendered,          \* routerState and isTransitioning of the last render
  transitioningDue,  \* the effect on [isTransitioning] has to run
  loading,           \* router.load() is in flight
  navigations,       \* the number of locations navigated to
  commits,           \* the locations whose load committed, in order
  emitted            \* the 'onResolved' events emitted, in order

treeVars == <<routeFiles, tpc, scanned, preRouteNodes, cursor, build>>
parentVars == <<hpRoutes, hpChecked, hpPath, hpCalls, hpReturn>>

genVars == <<genDir, latestTask, first, skipMessage, generatedRouteTree, runs>>

blockVars == <<blockerFn, blockerCondition, promises, promise, resolver, returned,
               updates, effectDue, blocker, attempts, location>>

matchVars == <<routeOptions, routerOptions, state, stale, renderedMatches, elements,
               outletContext, outletChild>>

transVars == <<hasUseTransition, store, mounted, isPending, rendered, transitioningDue, loading,
               navigations, commits, emitted>>

vars == <<treeVars, parentVars, genVars, blockVars, matchVars, transVars>>

(***************************************************************************)
(* Strings.  A file path is a sequence of tokens <<sep, seg>>: the segment *)
(* text and the separator written before it ("" for the first token, "/"   *)
(* for a directory separator, "." for a dot).  The extension (always one   *)
(* of tsx|ts|jsx|js) is left out.  posts/index.loader.tsx is                *)
(*   << <<"", "posts">>, <<"/", "index">>, <<".", "loader">> >>.            *)
(* A route path is the sequence of the segments that follow its leading    *)
(* '/', so '/' is <<"">>, '/posts' is <<"posts">>, '/posts/' is            *)
(* <<"posts", "">> and the empty string is <<>>.                           *)
(***************************************************************************)
rootPathId == "__root"

AspectSuffixes ==
  {"component", "errorComponent", "pendingComponent", "notFoundComponent", "loader"}

\* String order (UTF-16 code units) of the segment texts the model uses.
SegOrd(s) ==
  CASE s = "" -> 0 [] s = "$id" -> 1 [] s = "__root" -> 2 [] s = "a" -> 3
    [] s = "b" -> 4 [] s = "component" -> 5 [] s = "index" -> 6
    [] s = "loader" -> 7 [] s = "posts" -> 8 [] s = "route" -> 9

\* capitalize(...) of one segment after routePathToVariable's replacements
capitalize(s) ==
  CASE s = "$id" -> "Id" [] s = "__root" -> "Root" [] s = "a" -> "A"
    [] s = "b" -> "B" [] s = "component" -> "Component" [] s = "index" -> "Index"
    [] s = "loader" -> "Loader" [] s = "posts" -> "Posts" [] s = "route" -> "Route"

\* String order of the capitalized pieces of a variable name.
CapOrd(s) ==
  CASE s = "A" -> 1 [] s = "B" -> 2 [] s = "Component" -> 3 [] s = "Id" -> 4
    [] s = "Index" -> 5 [] s = "Loader" -> 6 [] s = "Posts" -> 7
    [] s = "Root" -> 8 [] s = "Route" -> 9

\* -1, 0, 1: string comparison of two route paths
RECURSIVE StrCmpPath(_, _)
StrCmpPath(p, q) ==
  IF p = <<>> THEN (IF q = <<>> THEN 0 ELSE -1)
  ELSE IF q = <<>> THEN 1
  ELSE IF SegOrd(Head(p)) < SegOrd(Head(q)) THEN -1
  ELSE IF SegOrd(Head(p)) > SegOrd(Head(q)) THEN 1
  ELSE StrCmpPath(Tail(p), Tail(q))

\* -1, 0, 1: string comparison of two variable names
RECURSIVE StrCmpVar(_, _)
StrCmpVar(v, w) ==
  IF v = <<>> THEN (IF w = <<>> THEN 0 ELSE -1)
  ELSE IF w = <<>> THEN 1
  ELSE IF CapOrd(Head(v)) < CapOrd(Head(w)) THEN -1
  ELSE IF CapOrd(Head(v)) > CapOrd(Head(w)) THEN 1
  ELSE StrCmpVar(Tail(v), Tail(w))

Last(s) == s[Len(s)]
Front(s) == SubSeq(s, 1, Len(s) - 1)

\* routePath.split('/').length
SplitLength(p) == Len(p) + 1

\* routePath.length, in characters
RECURSIVE StrLength(_)
StrLength(p) == IF p = <<>> THEN 0 ELSE 1 + Len(Head(p)) + StrLength(Tail(p))

\* routePath.endsWith('/')
EndsWithSlash(p) == p # <<>> /\ Last(p) = ""

\* check.startsWith(`${prefix}/`)
StartsWithSlash(check, prefix) ==
  /\ Len(check) > Len(prefix)
  /\ SubSeq(check, 1, Len(prefix)) = prefix

\* filePath.match(/[./]word[.]/): the word after a separator and before a dot
\* (a dot separator, or the dot of the extension)
MatchesWord(filePath, words) ==
  \E i \in 1..Len(filePath) :
    /\ filePath[i][2] \in words
    /\ filePath[i][1] \in {".", "/"}
    /\ (i = Len(filePath) \/ filePath[i + 1][1] = ".")

(***************************************************************************)
(* getRouteNodes: one RouteNode per scanned file.                          *)
(***************************************************************************)
\* filePathNoExt.split('.').join('/') after cleanPath: the segments of the path
Segments(filePath) == [i \in 1..Len(filePath) |-> filePath[i][2]]

\* routePathToVariable: every piece follows a '/', so every piece is capitalized
routePathToVariable(p) == [i \in 1..Len(p) |-> capitalize(p[i])]

\* a replace that strips nothing
StripSuffixNothing(p) == p

\* routePath.replace(/\/(component|...|loader|route)$/, '')
StripSuffix(p) ==
  IF p # <<>> /\ Last(p) \in AspectSuffixes \cup {"route"} THEN Front(p) ELSE p

\* routePath.replace(/\/index$/, '/') || '/'
IndexToSlash(p) ==
  LET r == IF p # <<>> /\ Last(p) = "index" THEN Front(p) \o <<"">> ELSE p
  IN  IF r = <<>> THEN <<"">> ELSE r

NoParent == 0
NoFile == <<>>

RouteNodeOf(filePath) ==
  LET full == Segments(filePath)
      ends(w) == full # <<>> /\ Last(full) = w
  IN  [ filePath |-> filePath,
        routePath |-> IndexToSlash(StripSuffix(full)),
        variableName |-> routePathToVariable(full),
        isRoute |-> ends("route"),
        isComponent |-> ends("component"),
        isErrorComponent |-> ends("errorComponent"),
        isPendingComponent |-> ends("pendingComponent"),
        isNotFoundComponent |-> ends("notFoundComponent"),
        isLoader |-> ends("loader"),
        isVirtual |-> FALSE,
        parent |-> NoParent,
        path |-> <<>>,
        isNonPath |-> FALSE,
        isNonLayout |-> FALSE,
        children |-> <<>> ]

\* The directory of a file: its tokens before the last '/' separator.
RECURSIVE LastSlash(_, _)
LastSlash(filePath, i) ==
  IF i = 0 THEN 0
  ELSE IF filePath[i][1] = "/" THEN i
  ELSE LastSlash(filePath, i - 1)

DirOf(filePath) == SubSeq(filePath, 1, LastSlash(filePath, Len(filePath)) - 1)

\* directory d is a proper ancestor of directory e
IsAncestorDir(d, e) ==
  /\ Len(d) < Len(e)
  /\ SubSeq(e, 1, Len(d)) = d
  /\ e[Len(d) + 1][1] = (IF d = <<>> THEN "" ELSE "/")

Orderings(S) ==
  {f \in [1..Cardinality(S) -> S] : \A i, j \in 1..Cardinality(S) : i # j => f[i] # f[j]}

Range(f) == {f[i] : i \in DOMAIN f}

\* the position of file x in the listing
IndexOf(listing, x) == CHOOSE i \in 1..Len(listing) : listing[i] = x

\* The push orders recurse() can produce.  listing holds the files in the order
\* readdir lists them (a property of the disk, the same at every scan).  A
\* directory's files are pushed together, in readdir order, when its readdir
\* resolves; a directory resolves before its subdirectories; the readdirs of
\* directories that are not nested resolve in any order.
ScanOrders(listing) ==
  {o \in Orderings(Range(listing)) :
     \A i, j \in 1..Len(o) :
       /\ (i < j /\ DirOf(o[i]) = DirOf(o[j])) =>
             /\ \A k \in i..j : DirOf(o[k]) = DirOf(o[i])
             /\ IndexOf(listing, o[i]) < IndexOf(listing, o[j])
       /\ IsAncestorDir(DirOf(o[i]), DirOf(o[j])) => i < j}

NumCmp(x, y) == IF x = y THEN 0 ELSE IF x > y THEN 1 ELSE -1

\* the first accessor result that is not 0
RECURSIVE FirstNonZero(_)
FirstNonZero(cs) ==
  IF cs = <<>> THEN 0
  ELSE IF Head(cs) # 0 THEN Head(cs)
  ELSE FirstNonZero(Tail(cs))

\* the accessors of generator()'s sort of the scanned nodes
PreSortCmp(a, b) ==
  LET k1(d) == IF d.routePath = <<"">> THEN -1 ELSE 1
      k2(d) == SplitLength(d.routePath)
      k3(d) == IF MatchesWord(d.filePath, {"index"}) THEN 1 ELSE -1
      k4(d) == IF MatchesWord(d.filePath, AspectSuffixes) THEN 1 ELSE -1
      k5(d) == IF MatchesWord(d.filePath, {"route"}) THEN -1 ELSE 1
      k6(d) == IF EndsWithSlash(d.routePath) THEN -1 ELSE 1
  IN  FirstNonZero(<< NumCmp(k1(a), k1(b)), NumCmp(k2(a), k2(b)),
                      NumCmp(k3(a), k3(b)), NumCmp(k4(a), k4(b)),
                      NumCmp(k5(a), k5(b)), NumCmp(k6(a), k6(b)),
                      StrCmpPath(a.routePath, b.routePath) >>)

\* the accessors of hasParentRoute's sort
ParentSortCmp(a, b) ==
  FirstNonZero(<< NumCmp(StrLength(a.routePath) * (-1), StrLength(b.routePath) * (-1)),
                  StrCmpVar(a.variableName, b.variableName) >>)

(***************************************************************************)
(* multiSortBy: a stable sort by the accessors' values, then by index.     *)
(* The two accessor lists of the generator are named "pre" (generator's    *)
(* sort of the scanned nodes) and "parent" (hasParentRoute's sort).        *)
(***************************************************************************)
\* the accessor loop: -1 or 1 from the first accessor that tells a and b
\* apart, 0 when every accessor continues
AccessorCmp(accessors, a, b) ==
  IF accessors = "pre" THEN PreSortCmp(a, b) ELSE ParentSortCmp(a, b)

\* the comparator of multiSortBy on the elements at i and j: a before b
SortsBefore(arr, accessors, i, j) ==
  \/ AccessorCmp(accessors, arr[i], arr[j]) < 0
  \/ (AccessorCmp(accessors, arr[i], arr[j]) = 0 /\ i < j)

\* the sorted order as a list of indices into arr
SortPerm(arr, accessors) ==
  [k \in 1..Len(arr) |->
     CHOOSE i \in 1..Len(arr) :
       Cardinality({j \in 1..Len(arr) : j # i /\ SortsBefore(arr, accessors, j, i)}) = k - 1]

ApplyPerm(arr, perm) == [k \in 1..Len(arr) |-> arr[perm[k]]]

multiSortBy(arr, accessors) == ApplyPerm(arr, SortPerm(arr, accessors))

\* multiSortBy(...).filter(routePath is not `/${routePathIdPrefix + rootPathId}`)
PreRouteNodes(nodes) ==
  LET keep(d) == d.routePath # <<rootPathId>>
  IN  SelectSeq(multiSortBy(nodes, "pre"), keep)

(***************************************************************************)
(* hasParentRoute and handleNode.  The nodes of routeNodes are referred to *)
(* by their index in routeNodes: parent and children hold indices.         *)
(***************************************************************************)
\* the loop over sortedNodes: the index in routes of the first route that is a
\* path prefix of routePathToCheck, NoParent when the loop ends without one
FirstPrefix(routes, routePathToCheck, perm) ==
  LET hits == {k \in 1..Len(perm) :
                 /\ routes[perm[k]].routePath # <<rootPathId>>
                 /\ routes[perm[k]].routePath # <<"">>
                 /\ StartsWithSlash(routePathToCheck, routes[perm[k]].routePath)
                 /\ routes[perm[k]].routePath # routePathToCheck}
  IN  IF hits = {} THEN NoParent
      ELSE perm[CHOOSE k \in hits : \A h \in hits : k <= h]

\* a lookup that finds no parent
hasParentRouteNull(routes, routePathToCheck) == NoParent

\* the index in routes of the node returned, NoParent for null
RECURSIVE hasParentRoute(_, _)
hasParentRoute(routes, routePathToCheck) ==
  IF routePathToCheck = <<>> \/ routePathToCheck = <<"">> THEN NoParent
  ELSE IF FirstPrefix(routes, routePathToCheck, SortPerm(routes, "parent")) # NoParent
  THEN FirstPrefix(routes, routePathToCheck, SortPerm(routes, "parent"))
  ELSE hasParentRoute(routes, Front(routePathToCheck))

\* first.startsWith('_') and first.endsWith('_') of the segment texts used
StartsWithUnderscore(s) == s = "__root"
EndsWithUnderscore(s) == FALSE

IsAspect(node) ==
  \/ node.isLoader \/ node.isComponent \/ node.isErrorComponent
  \/ node.isPendingComponent \/ node.isNotFoundComponent

PieceKind(node) ==
  IF node.isLoader THEN "loader"
  ELSE IF node.isErrorComponent THEN "errorComponent"
  ELSE IF node.isPendingComponent THEN "pendingComponent"
  ELSE IF node.isNotFoundComponent THEN "notFoundComponent"
  ELSE "component"

NoPieces == [k \in AspectSuffixes |-> NoFile]

EmptyBuild == [routeNodes |-> <<>>, routeTree |-> <<>>, routePiecesByPath |-> <<>>]

\* node.path: the route path without the parent's route path, '/' if nothing is left
PathUnder(node, parentPath) ==
  IF SubSeq(node.routePath, Len(parentPath) + 1, Len(node.routePath)) = <<>>
  THEN <<"">>
  ELSE SubSeq(node.routePath, Len(parentPath) + 1, Len(node.routePath))

\* split[0] of the trimmed path
FirstSegment(path) == IF path = <<>> THEN "" ELSE Head(path)

WithPath(node, parent, path) ==
  [node EXCEPT !.parent = parent, !.path = path,
               !.isNonPath = StartsWithUnderscore(FirstSegment(path)),
               !.isNonLayout = EndsWithUnderscore(FirstSegment(path))]

WithParent(b, node, parent) ==
  WithPath(node, parent,
           IF parent # NoParent
           THEN PathUnder(node, b.routeNodes[parent].routePath)
           ELSE node.routePath)

\* handleNode, the part before the aspect test: parent, path and the underscore flags
Prepare(b, node) ==
  WithParent(b, node,
             IF hasParentRoute(b.routeNodes, node.routePath) # NoParent
             THEN hasParentRoute(b.routeNodes, node.routePath)
             ELSE node.parent)

\* handleNode, lines 234-241: a child of its parent, or of the root; and registered
Register(b, node) ==
  IF node.parent # NoParent
  THEN [b EXCEPT !.routeNodes =
          Append([@ EXCEPT ![node.parent].children = Append(@, Len(b.routeNodes) + 1)],
                 node)]
  ELSE [b EXCEPT !.routeNodes = Append(@, node),
                 !.routeTree = Append(@, Len(b.routeNodes) + 1)]

\* routePiecesByPath[routePath] = routePiecesByPath[routePath] || {}; then [kind] = node
\* (a list of <<routePath, pieces>> in insertion order)
SetPiece(pieces, routePath, kind, filePath) ==
  IF \E i \in 1..Len(pieces) : pieces[i][1] = routePath
  THEN [i \in 1..Len(pieces) |->
          IF pieces[i][1] = routePath
          THEN <<routePath, [pieces[i][2] EXCEPT ![kind] = filePath]>>
          ELSE pieces[i]]
  ELSE Append(pieces, <<routePath, [NoPieces EXCEPT ![kind] = filePath]>>)

\* routeNodes.find((d) => d.routePath === node.routePath) finds a node
HasAnchorRoute(b, node) ==
  \E i \in 1..Len(b.routeNodes) : b.routeNodes[i].routePath = node.routePath

\* the virtual copy of an aspect node
VirtualOf(node) ==
  [node EXCEPT !.isVirtual = TRUE, !.isLoader = FALSE, !.isComponent = FALSE,
               !.isErrorComponent = FALSE, !.isPendingComponent = FALSE,
               !.isNotFoundComponent = FALSE]

\* the aspect branch once the piece is recorded in b1
AspectBranch(b1, node) ==
  IF ~HasAnchorRoute(b1, node) THEN Register(b1, Prepare(b1, VirtualOf(node))) ELSE b1

Handle(b, node) ==
  IF ~node.isVirtual /\ IsAspect(node)
  THEN AspectBranch([b EXCEPT !.routePiecesByPath =
                       SetPiece(@, node.routePath, PieceKind(node), node.filePath)],
                    node)
  ELSE Register(b, node)

handleNode(b, node) == Handle(b, Prepare(b, node))

\* preRouteNodes.forEach((node) => handleNode(node))
RECURSIVE BuildFrom(_, _)
BuildFrom(b, nodes) ==
  IF nodes = <<>> THEN b ELSE BuildFrom(handleNode(b, Head(nodes)), Tail(nodes))

(***************************************************************************)
(* One generator run, step by step: scan, sort, handleNode for each node.  *)
(***************************************************************************)
MaxFiles == 3

\* index.tsx, component.tsx, route.tsx, __root.tsx
fIndex == << <<"", "index">> >>
fComponent == << <<"", "component">> >>
fRoute == << <<"", "route">> >>
fRoot == << <<"", "__root">> >>
\* posts.tsx, posts.component.tsx, posts.loader.tsx
fPosts == << <<"", "posts">> >>
fPostsComponent == << <<"", "posts">>, <<".", "component">> >>
fPostsLoader == << <<"", "posts">>, <<".", "loader">> >>
\* posts/index.tsx, posts/index/component.tsx
fPostsIndex == << <<"", "posts">>, <<"/", "index">> >>
fPostsIndexComponent == << <<"", "posts">>, <<"/", "index">>, <<"/", "component">> >>
\* $id/route.tsx
fIdRoute == << <<"", "$id">>, <<"/", "route">> >>
\* posts.$id.tsx, posts/$id/index.tsx
fPostsId == << <<"", "posts">>, <<".", "$id">> >>
fPostsIdIndex == << <<"", "posts">>, <<"/", "$id">>, <<"/", "index">> >>
\* a.b/component.tsx, a/b.loader.tsx
fABComponent == << <<"", "a">>, <<".", "b">>, <<"/", "component">> >>
fABLoader == << <<"", "a">>, <<"/", "b">>, <<".", "loader">> >>

RouteFileUniverse ==
  { fIndex, fComponent, fRoute, fRoot, fPosts, fPostsComponent, fPostsLoader,
    fPostsIndex, fPostsIndexComponent, fPostsId, fPostsIdIndex, fIdRoute,
    fABComponent, fABLoader }

TreeStart ==
  /\ routeFiles \in UNION {Orderings(S) : S \in {T \in SUBSET RouteFileUniverse :
                                    Cardinality(T) >= 1 /\ Cardinality(T) <= MaxFiles}}
  /\ tpc = "scan"
  /\ scanned = <<>>
  /\ preRouteNodes = <<>>
  /\ cursor = 0
  /\ build = EmptyBuild

\* await getRouteNodes(config)
GetRouteNodes ==
  /\ tpc = "scan"
  /\ \E o \in ScanOrders(routeFiles) :
       scanned' = [i \in 1..Len(o) |-> RouteNodeOf(o[i])]
  /\ tpc' = "sort"
  /\ UNCHANGED <<routeFiles, preRouteNodes, cursor, build>>
  /\ UNCHANGED <<genVars, blockVars, matchVars, transVars, parentVars>>

\* multiSortBy(...).filter(...)
SortNodes ==
  /\ tpc = "sort"
  /\ preRouteNodes' = PreRouteNodes(scanned)
  /\ cursor' = 1
  /\ tpc' = "handle"
  /\ UNCHANGED <<routeFiles, scanned, build>>
  /\ UNCHANGED <<genVars, blockVars, matchVars, transVars, parentVars>>

\* one iteration of preRouteNodes.forEach
HandleNext ==
  /\ tpc = "handle"
  /\ cursor <= Len(preRouteNodes)
  /\ build' = handleNode(build, preRouteNodes[cursor])
  /\ cursor' = cursor + 1
  /\ UNCHANGED <<routeFiles, tpc, scanned, preRouteNodes>>
  /\ UNCHANGED <<genVars, blockVars, matchVars, transVars, parentVars>>

\* the loop is over
HandleDone ==
  /\ tpc = "handle"
  /\ cursor > Len(preRouteNodes)
  /\ tpc' = "done"
  /\ UNCHANGED <<routeFiles, scanned, preRouteNodes, cursor, build>>
  /\ UNCHANGED <<genVars, blockVars, matchVars, transVars, parentVars>>

TreeNext == GetRouteNodes \/ SortNodes \/ HandleNext \/ HandleDone

(***************************************************************************)
(* One call of hasParentRoute, for any routePathToCheck.  A string that     *)
(* need not start with '/' is the list s.split('/') gives: '' is <<"">>,    *)
(* '/' is <<"", "">>, 'a' is <<"a">>, '/a/' is <<"", "a", "">>; undefined   *)
(* is <<>>.  The route paths of the nodes start with '/', as getRouteNodes  *)
(* makes them, and keep the form they have in the generator run: the        *)
(* segments after each '/'.                                                 *)
(***************************************************************************)
MaxSegments == 3

MaxRoutes == 2

\* routePathToCheck is undefined
NoString == <<>>

PathSegmentTexts == {"", "posts", "$id"}

CheckedPaths ==
  {NoString} \cup UNION {[1..n -> PathSegmentTexts] : n \in 1..MaxSegments}

\* __root.tsx, index.tsx, posts.tsx, posts.$id.tsx, posts/$id/index.tsx
ParentRouteFiles == {fRoot, fIndex, fPosts, fPostsId, fPostsIdIndex}

RoutesLists ==
  UNION {Orderings(S) : S \in {T \in SUBSET ParentRouteFiles : Cardinality(T) <= MaxRoutes}}

\* hasParentRoute(routes, routePathToCheck) has been called
ParentStart ==
  /\ \E files \in RoutesLists : hpRoutes = [i \in 1..Len(files) |-> RouteNodeOf(files[i])]
  /\ hpChecked \in CheckedPaths
  /\ hpPath = hpChecked
  /\ hpCalls = 1
  /\ hpReturn = <<>>

\* !routePathToCheck || routePathToCheck === '/'
IsFalsyOrSlash(p) == p = NoString \/ p = <<"">> \/ p = <<"", "">>

\* the for loop over sortedNodes: a route path starts with '/' or is '', so
\* `${route.routePath}/` is a prefix only of a path that starts with '/'
LoopReturn(rs, p) ==
  IF Head(p) = "" THEN FirstPrefix(rs, Tail(p), SortPerm(rs, "parent")) ELSE NoParent

\* a pop that removes nothing
parentRoutePathKeepsLast(p) == p

\* segments.pop(); segments.join('/'): no segment left joins to ''
parentRoutePath(p) == IF Len(p) = 1 THEN <<"">> ELSE Front(p)

\* return null
ReturnNull ==
  /\ hpCalls > 0 /\ hpReturn = <<>>
  /\ IsFalsyOrSlash(hpPath)
  /\ hpReturn' = <<NoParent>>
  /\ UNCHANGED <<hpRoutes, hpChecked, hpPath, hpCalls>>
  /\ UNCHANGED <<treeVars, genVars, blockVars, matchVars, transVars>>

\* return route
ReturnRoute ==
  /\ hpCalls > 0 /\ hpReturn = <<>>
  /\ ~IsFalsyOrSlash(hpPath)
  /\ LoopReturn(hpRoutes, hpPath) # NoParent
  /\ hpReturn' = <<LoopReturn(hpRoutes, hpPath)>>
  /\ UNCHANGED <<hpRoutes, hpChecked, hpPath, hpCalls>>
  /\ UNCHANGED <<treeVars, genVars, blockVars, matchVars, transVars>>

\* return hasParentRoute(routes, parentRoutePath)
Recurse ==
  /\ hpCalls > 0 /\ hpReturn = <<>>
  /\ ~IsFalsyOrSlash(hpPath)
  /\ LoopReturn(hpRoutes, hpPath) = NoParent
  /\ hpPath' = parentRoutePath(hpPath)
  /\ hpCalls' = hpCalls + 1
  /\ UNCHANGED <<hpRoutes, hpChecked, hpReturn>>
  /\ UNCHANGED <<treeVars, genVars, blockVars, matchVars, transVars>>

ParentNext == ReturnNull \/ ReturnRoute \/ Recurse

(***************************************************************************)
(* Overlapping generator() invocations.  An invocation is a sequence of    *)
(* synchronous stretches separated by awaits; each stretch is one action.  *)
(* The run with taskId t is runs[t].                                       *)
(***************************************************************************)
MaxRuns == 2

Runs == 1..MaxRuns

\* the route directories the user switches between:
\* {route.tsx, index.tsx, $id/route.tsx} and {a.b/component.tsx, a/b.loader.tsx}
GenFileSets == { <<fIndex, fRoute, fIdRoute>>, <<fABComponent, fABLoader>> }

\* error holds the error the promise of generator() rejected with, NoFsError
\* when it did not reject; failedAt the call that failed
NoFsError == ""

NotStarted ==
  [ pc |-> "idle", files |-> <<>>, order |-> <<>>, content |-> <<>>,
    routeTreeContent |-> <<>>, wrote |-> FALSE, processed |-> FALSE, quiet |-> FALSE,
    message |-> "", error |-> NoFsError, failedAt |-> "" ]

Finished(r) == r.pc \in {"idle", "done", "stale", "rejected"}

GenStart ==
  /\ genDir \in GenFileSets
  /\ latestTask = 0
  /\ first = FALSE
  /\ skipMessage = FALSE
  /\ generatedRouteTree = <<>>
  /\ runs = [t \in Runs |-> NotStarted]

\* routeConfigFileContent: the text is a function of the built tree
RouteConfigFileContent(order) ==
  << BuildFrom(EmptyBuild, PreRouteNodes([i \in 1..Len(order) |-> RouteNodeOf(order[i])])) >>

\* a checkLatest that never finds the run stale
checkLatestAlwaysTrue(taskId) == TRUE

\* const checkLatest = () => ... (its result; it sets skipMessage when false)
checkLatest(taskId) == latestTask = taskId

\* generator() up to its first await: the message, taskId and latestTask
Invoke ==
  /\ latestTask < MaxRuns
  /\ latestTask' = latestTask + 1
  /\ first' = TRUE
  /\ skipMessage' = (IF first THEN FALSE ELSE skipMessage)
  /\ runs' = [runs EXCEPT ![latestTask + 1] =
       [NotStarted EXCEPT
          !.pc = "scan",
          !.quiet = \A t \in Runs : Finished(runs[t]),
          !.message = IF ~first THEN "Generating routes"
                      ELSE IF skipMessage THEN "" ELSE "Regenerating routes"]]
  /\ UNCHANGED <<genDir, generatedRouteTree>>
  /\ UNCHANGED <<treeVars, blockVars, matchVars, transVars, parentVars>>

\* getRouteNodes resolves; the sort and the handleNode loop follow, and
\* buildRouteConfig starts reading the route files
Scan(t) ==
  /\ runs[t].pc = "scan"
  /\ \E order \in ScanOrders(genDir) :
       runs' = [runs EXCEPT ![t].pc = "build", ![t].files = genDir, ![t].order = order]
  /\ UNCHANGED <<genDir, latestTask, first, skipMessage, generatedRouteTree>>
  /\ UNCHANGED <<treeVars, blockVars, matchVars, transVars, parentVars>>

\* the reads and rewrites of the route files resolve; the text is made and the
\* read of the generated file starts
BuildRouteConfig(t) ==
  /\ runs[t].pc = "build"
  /\ runs' = [runs EXCEPT ![t].pc = "read",
                          ![t].content = RouteConfigFileContent(runs[t].order)]
  /\ UNCHANGED <<genDir, latestTask, first, skipMessage, generatedRouteTree>>
  /\ UNCHANGED <<treeVars, blockVars, matchVars, transVars, parentVars>>

\* the codes of the errors a filesystem call can fail with
FsErrorCodes == {"ENOENT", "EACCES"}

\* fs.readFile of the generated file: ENOENT when there is no file
ReadFile(file) ==
  IF file = <<>> THEN [code |-> "ENOENT", content |-> <<>>]
  ELSE [code |-> NoFsError, content |-> file]

\* a catch that rethrows every error
RethrowsAll(code) == TRUE

\* the .catch of the read: whether the error is thrown again
Rethrows(code) == code # "ENOENT"

\* the promise of generator() rejects with the error of the call the run is at
Rejected(r, code) == [r EXCEPT !.pc = "rejected", !.error = code, !.failedAt = r.pc]

\* the read of the generated file settles (ENOENT gives undefined); checkLatest;
\* the comparison; then the message, or the start of mkdir
ReadTree(t) ==
  /\ runs[t].pc = "read"
  /\ IF ReadFile(generatedRouteTree).code # NoFsError
        /\ Rethrows(ReadFile(generatedRouteTree).code)
     THEN /\ skipMessage' = skipMessage
          /\ runs' = [runs EXCEPT ![t] = Rejected(@, ReadFile(generatedRouteTree).code)]
     ELSE IF ~checkLatest(t)
     THEN /\ skipMessage' = TRUE
          /\ runs' = [runs EXCEPT ![t].pc = "stale",
                                  ![t].routeTreeContent = ReadFile(generatedRouteTree).content]
     ELSE /\ skipMessage' = skipMessage
          /\ IF generatedRouteTree # runs[t].content
             THEN runs' = [runs EXCEPT ![t].pc = "mkdir",
                                       ![t].routeTreeContent = ReadFile(generatedRouteTree).content]
             ELSE runs' = [runs EXCEPT ![t].pc = "done", ![t].processed = TRUE,
                                       ![t].routeTreeContent = ReadFile(generatedRouteTree).content]
  /\ UNCHANGED <<genDir, latestTask, first, generatedRouteTree>>
  /\ UNCHANGED <<treeVars, blockVars, matchVars, transVars, parentVars>>

\* mkdir resolves; checkLatest; fs.writeFile is called
Mkdir(t) ==
  /\ runs[t].pc = "mkdir"
  /\ IF ~checkLatest(t)
     THEN /\ skipMessage' = TRUE
          /\ runs' = [runs EXCEPT ![t].pc = "stale"]
     ELSE /\ skipMessage' = skipMessage
          /\ runs' = [runs EXCEPT ![t].pc = "write", ![t].wrote = TRUE]
  /\ UNCHANGED <<genDir, latestTask, first, generatedRouteTree>>
  /\ UNCHANGED <<treeVars, blockVars, matchVars, transVars, parentVars>>

\* fs.writeFile resolves: the file holds the content; the 'Processed' message
WriteDone(t) ==
  /\ runs[t].pc = "write"
  /\ generatedRouteTree' = runs[t].content
  /\ runs' = [runs EXCEPT ![t].pc = "done", ![t].processed = TRUE]
  /\ UNCHANGED <<genDir, latestTask, first, skipMessage>>
  /\ UNCHANGED <<treeVars, blockVars, matchVars, transVars, parentVars>>

\* a filesystem call of the run rejects (the read of the generated file with an
\* error other than the ENOENT of a missing file): the promise of generator()
\* rejects
FsError(t) ==
  /\ runs[t].pc \in {"scan", "build", "read", "mkdir", "write"}
  /\ \E code \in FsErrorCodes :
       /\ runs[t].pc = "read" => (code # "ENOENT" /\ Rethrows(code))
       /\ runs' = [runs EXCEPT ![t] = Rejected(@, code)]
  /\ UNCHANGED <<genDir, latestTask, first, skipMessage, generatedRouteTree>>
  /\ UNCHANGED <<treeVars, blockVars, matchVars, transVars, parentVars>>

\* the user adds and removes route files
ChangeFiles ==
  /\ genDir' \in GenFileSets \ {genDir}
  /\ UNCHANGED <<latestTask, first, skipMessage, generatedRouteTree, runs>>
  /\ UNCHANGED <<treeVars, blockVars, matchVars, transVars, parentVars>>

GenNext ==
  \/ Invoke
  \/ ChangeFiles
  \/ \E t \in Runs : Scan(t) \/ BuildRouteConfig(t) \/ ReadTree(t) \/ Mkdir(t)
                      \/ WriteDone(t) \/ FsError(t)

(***************************************************************************)
(* useBlocker.  A promise of createPromise is an entry of promises; the    *)
(* resolver made with it holds its resolve function.  firstCall and        *)
(* lastCall record the calls of proceed and reset made on that resolver.   *)
(***************************************************************************)
MaxAttempts == 2

Attempts == 1..MaxAttempts

NoBlocker == 0

\* new Promise(...): unsettled.  whileIdle tells whether the first call of
\* proceed or reset on its resolver was made while nothing was blocked.
NewPromise ==
  [settled |-> FALSE, value |-> FALSE, firstCall |-> "none", lastCall |-> "none",
   whileIdle |-> FALSE]

\* queued state updates: setResolver((prev) => ({...prev, status: 'blocked'})),
\* setResolver of the resolver made with promise k, and setPromise(createPromise)
\* still to be evaluated by the render
MarkBlocked == 0
LazyCreate == -1

NoAttempt == [pc |-> "idle", awaits |-> NoBlocker, answer |-> "none"]

BlockStart ==
  /\ blockerFn \in BOOLEAN
  /\ blockerCondition \in BOOLEAN
  /\ promises = <<NewPromise>>
  /\ promise = 1
  /\ resolver = [status |-> "idle", target |-> 1]
  /\ returned = {1}
  /\ updates = <<>>
  /\ effectDue = TRUE
  /\ blocker = NoBlocker
  /\ attempts = [a \in Attempts |-> NoAttempt]
  /\ location = 0

\* a promise swallows every resolve after the first
ResolveOverwrites(q, v) == [q EXCEPT !.settled = TRUE, !.value = v]

\* the resolve function of new Promise((resolve) => ...): the first call settles
ResolvePromise(q, v) == IF q.settled THEN q ELSE [q EXCEPT !.settled = TRUE, !.value = v]

\* proceed: () => resolve(true)
ProceedValue == TRUE

\* a reset that lets the navigation through
ResetAllows == TRUE

\* reset: () => resolve(false)
ResetValue == FALSE

\* the resolver the component holds has status 'idle' and no navigation
\* attempt is waiting on the blocker
NothingBlocked ==
  /\ resolver.status = "idle"
  /\ \A a \in Attempts : attempts[a].pc # "awaiting"

Called(q, name) ==
  [q EXCEPT !.firstCall = IF @ = "none" THEN name ELSE @, !.lastCall = name,
            !.whileIdle = IF q.firstCall = "none" THEN NothingBlocked ELSE @]

\* the component calls proceed() of a resolver it was given
Proceed(k) ==
  /\ k \in returned
  /\ promises' = [promises EXCEPT ![k] = Called(ResolvePromise(@, ProceedValue), "proceed")]
  /\ UNCHANGED <<blockerFn, blockerCondition, promise, resolver, returned, updates,
                 effectDue, blocker, attempts, location>>
  /\ UNCHANGED <<treeVars, genVars, matchVars, transVars, parentVars>>

\* the component calls reset() of a resolver it was given
Reset(k) ==
  /\ k \in returned
  /\ promises' = [promises EXCEPT ![k] = Called(ResolvePromise(@, ResetValue), "reset")]
  /\ UNCHANGED <<blockerFn, blockerCondition, promise, resolver, returned, updates,
                 effectDue, blocker, attempts, location>>
  /\ UNCHANGED <<treeVars, genVars, matchVars, transVars, parentVars>>

\* the effect: history.block(blockerFnComposed) unless the condition is falsy
\* (the cleanup of the previous effect removes the blocker registered before)
RunEffect ==
  /\ effectDue
  /\ effectDue' = FALSE
  /\ blocker' = IF blockerCondition THEN promise ELSE NoBlocker
  /\ UNCHANGED <<blockerFn, blockerCondition, promises, promise, resolver, returned,
                 updates, attempts, location>>
  /\ UNCHANGED <<treeVars, genVars, matchVars, transVars, parentVars>>

\* the history commits the navigation of attempt a
Committed(a) == [pc |-> "committed", awaits |-> attempts[a].awaits, answer |-> "true"]

\* the history drops the navigation of attempt a
Vetoed(a) == [pc |-> "vetoed", awaits |-> attempts[a].awaits, answer |-> "false"]

\* a navigation attempt: the history calls the registered blocker, if any;
\* blockerFnComposed runs up to its first await
Navigate(a) ==
  /\ attempts[a].pc = "idle"
  /\ \A b \in Attempts : b < a => attempts[b].pc # "idle"
  /\ IF blocker = NoBlocker
     THEN /\ attempts' = [attempts EXCEPT ![a] = Committed(a)]
          /\ location' = a
          /\ updates' = updates
     ELSE IF blockerFn
     THEN /\ attempts' = [attempts EXCEPT ![a].pc = "blockerFn"]
          /\ UNCHANGED <<location, updates>>
     ELSE /\ attempts' = [attempts EXCEPT ![a].pc = "awaiting", ![a].awaits = blocker]
          /\ updates' = Append(updates, MarkBlocked)
          /\ location' = location
  /\ UNCHANGED <<blockerFn, blockerCondition, promises, promise, resolver, returned,
                 effectDue, blocker>>
  /\ UNCHANGED <<treeVars, genVars, matchVars, transVars, parentVars>>

\* return await blockerFn(): the function's result is the answer
BlockerFnAnswers(a) ==
  /\ attempts[a].pc = "blockerFn"
  /\ \E v \in BOOLEAN :
       /\ attempts' = [attempts EXCEPT ![a] = IF v THEN Committed(a) ELSE Vetoed(a)]
       /\ location' = IF v THEN a ELSE location
  /\ UNCHANGED <<blockerFn, blockerCondition, promises, promise, resolver, returned,
                 updates, effectDue, blocker>>
  /\ UNCHANGED <<treeVars, genVars, matchVars, transVars, parentVars>>

\* `await promise` resumes: setPromise(createPromise), and the value is returned.
\* With no update queued React evaluates createPromise at once (its executor
\* queues the new resolver); otherwise the render evaluates it.
Resume(a) ==
  /\ attempts[a].pc = "awaiting"
  /\ promises[attempts[a].awaits].settled
  /\ IF updates = <<>>
     THEN /\ promises' = Append(promises, NewPromise)
          /\ updates' = <<Len(promises) + 1>>
     ELSE /\ promises' = promises
          /\ updates' = Append(updates, LazyCreate)
  /\ attempts' = [attempts EXCEPT ![a] =
       IF promises[attempts[a].awaits].value THEN Committed(a) ELSE Vetoed(a)]
  /\ location' = IF promises[attempts[a].awaits].value THEN a ELSE location
  /\ UNCHANGED <<blockerFn, blockerCondition, promise, resolver, returned, effectDue, blocker>>
  /\ UNCHANGED <<treeVars, genVars, matchVars, transVars, parentVars>>

\* the resolver after the queued setResolver calls, in call order
RECURSIVE ApplyResolverUpdates(_, _)
ApplyResolverUpdates(r, us) ==
  IF us = <<>> THEN r
  ELSE IF Head(us) = MarkBlocked
  THEN ApplyResolverUpdates([r EXCEPT !.status = "blocked"], Tail(us))
  ELSE IF Head(us) = LazyCreate THEN ApplyResolverUpdates(r, Tail(us))
  ELSE ApplyResolverUpdates([status |-> "idle", target |-> Head(us)], Tail(us))

\* the number of setPromise(createPromise) the render has to evaluate
LazyCount(us) == Len(SelectSeq(us, LAMBDA u : u = LazyCreate))

\* the promises made before the render by setPromise(createPromise)
EagerTargets(us) == {us[i] : i \in {j \in 1..Len(us) : us[j] > 0}}

\* the component renders: the queued updates are applied.  A createPromise the
\* render evaluates queues its resolver during the render, after the others.
Render ==
  /\ updates # <<>>
  /\ promises' = promises \o [i \in 1..LazyCount(updates) |-> NewPromise]
  /\ promise' = IF LazyCount(updates) > 0 THEN Len(promises')
                ELSE IF EagerTargets(updates) # {} THEN Len(promises)
                ELSE promise
  /\ resolver' = IF LazyCount(updates) > 0
                 THEN [status |-> "idle", target |-> Len(promises')]
                 ELSE ApplyResolverUpdates(resolver, updates)
  /\ returned' = returned \cup {resolver'.target}
  /\ effectDue' = (effectDue \/ promise' # promise)
  /\ updates' = <<>>
  /\ UNCHANGED <<blockerFn, blockerCondition, blocker, attempts, location>>
  /\ UNCHANGED <<treeVars, genVars, matchVars, transVars, parentVars>>

BlockNext ==
  \/ RunEffect
  \/ Render
  \/ \E k \in 1..(MaxAttempts + 1) : Proceed(k) \/ Reset(k)
  \/ \E a \in Attempts : Navigate(a) \/ BlockerFnAnswers(a) \/ Resume(a)

(***************************************************************************)
(* Matches.tsx.  A render is a pure function of router.state and of the    *)
(* options: every component is an operator that yields what it leaves on   *)
(* the screen (views, root first) or the error it throws.                  *)
(***************************************************************************)
MaxMatches == 2

rootRouteId == 0

throwGlobalNotFoundRouteId == -1

RouteIds == 0..(MaxMatches - 1)

NoError == "none"

\* isNotFound(error): the error was made by notFound()
isNotFound(error) == error \in {"notFound", "globalNotFound"}

\* error.global
IsGlobal(error) == error = "globalNotFound"

\* state.pendingMatches is undefined
Undefined == <<>>

AnyShowPending(ms) == \E p \in 1..Len(ms) : ms[p].showPending

\* pendingMatches whenever there are any
getRenderedMatchesPendingFirst(s) ==
  IF s.pendingMatches # Undefined THEN s.pendingMatches[1] ELSE s.matches

getRenderedMatches(s) ==
  IF s.pendingMatches # Undefined /\ AnyShowPending(s.pendingMatches[1])
  THEN s.pendingMatches[1]
  ELSE s.matches

\* Array.prototype.findIndex on the ids, as a position: 0 when no match has the id
FindIndex(ms, matchId) ==
  IF \E p \in 1..Len(ms) : ms[p].id = matchId
  THEN CHOOSE p \in 1..Len(ms) :
         ms[p].id = matchId /\ \A q \in 1..(p - 1) : ms[q].id # matchId
  ELSE 0

hasGlobalNotFound(ms) == \E p \in 1..Len(ms) : ms[p].routeId = throwGlobalNotFoundRouteId

\* an error component given by the route or the router only
routeErrorComponentNoBuiltin(routeId) ==
  IF routeOptions[routeId].errorComponent THEN "route.errorComponent"
  ELSE IF routerOptions.defaultErrorComponent THEN "defaultErrorComponent"
  ELSE "none"

routeErrorComponent(routeId) ==
  IF routeOptions[routeId].errorComponent THEN "route.errorComponent"
  ELSE IF routerOptions.defaultErrorComponent THEN "defaultErrorComponent"
  ELSE "ErrorComponent"

\* route.options.component ?? router.options.defaultComponent
routeComponent(routeId) ==
  IF routeOptions[routeId].component THEN "component"
  ELSE IF routerOptions.defaultComponent THEN "defaultComponent"
  ELSE "none"

routeNotFoundComponent(routeId) ==
  IF routeOptions[routeId].notFoundComponent THEN "route.notFoundComponent"
  ELSE IF routeId = rootRouteId /\ routerOptions.notFoundRoute THEN "notFoundRoute.component"
  ELSE "none"

\* a global not-found is thrown by no Match
ThrowsGlobalNotFoundNever(ms, routeId) == FALSE

\* Match: if (hasGlobalNotFound && routeId !== rootRouteId) throw notFound({ global: true })
ThrowsGlobalNotFound(ms, routeId) == hasGlobalNotFound(ms) /\ routeId # rootRouteId

\* an error boundary that keeps every error
onCatchKeepsAll(error) == FALSE

\* onCatch of the match's error boundary: TRUE when it throws the error on
onCatch(error) == isNotFound(error)

\* fallback of the match's not-found boundary: TRUE when it throws the error on
FallbackThrows(routeId, error) ==
  \/ routeNotFoundComponent(routeId) = "none"
  \/ (IsGlobal(error) /\ routeId # rootRouteId)

\* what a component leaves on the screen for match m
View(m, shows, component, error) ==
  [id |-> m.id, routeId |-> m.routeId, shows |-> shows, component |-> component,
   error |-> error]

Shown(views) == [shown |-> views, thrown |-> NoError]

Thrown(error) == [shown |-> <<>>, thrown |-> error]

\* what MatchInner throws to suspend (match.loadPromise), and the error of a
\* failed invariant()
Suspends == "loadPromise"
InvariantFailed == "Invariant failed"

\* CatchBoundary around r: shows view for an error thrown below, unless its
\* onCatch throws the error on to the boundary above; a thrown promise is no
\* error and passes
CatchBoundary(view, throwsOn, r) ==
  IF r.thrown = NoError \/ r.thrown = Suspends \/ throwsOn THEN r ELSE Shown(<<view>>)

\* CatchNotFound around r: shows the fallback for a not-found error thrown
\* below, unless the fallback throws it on; lets every other error through
CatchNotFound(view, throwsOn, r) ==
  IF ~isNotFound(r.thrown) \/ throwsOn THEN r ELSE Shown(<<view>>)

ResolvedCatchBoundary(m, r) ==
  IF routeErrorComponent(m.routeId) = "none" THEN r
  ELSE CatchBoundary(View(m, "errorComponent", routeErrorComponent(m.routeId), r.thrown),
                     onCatch(r.thrown), r)

ResolvedNotFoundBoundary(m, r) ==
  IF routeNotFoundComponent(m.routeId) = "none" THEN r
  ELSE CatchNotFound(View(m, "notFoundComponent", routeNotFoundComponent(m.routeId), r.thrown),
                     FallbackThrows(m.routeId, r.thrown), r)

\* React.Suspense around r when the route asks for it, a fragment otherwise: the
\* fallback (the pending element) is shown while the match is suspended
ResolvedSuspenseBoundary(m, r) ==
  IF routeOptions[m.routeId].wrapInSuspense /\ r.thrown = Suspends
  THEN Shown(<<View(m, "suspended", "pendingComponent", NoError)>>)
  ELSE r

\* a component with what its Outlet rendered below it
Above(view, r) == IF r.thrown # NoError THEN r ELSE Shown(<<view>> \o r.shown)

\* the value of the matchContext outside of every provider, and of a provider
\* given the id of no match
NoContext == <<-4, "">>

\* childMatchId is undefined: the Outlet returns null
Nothing == <<-3, "">>

\* Outlet's selector: matches[index + 1]?.id, index being -1 when the id is not
\* in the list
childMatchId(ms, matchId) ==
  IF FindIndex(ms, matchId) + 1 > Len(ms) THEN Nothing
  ELSE ms[FindIndex(ms, matchId) + 1].id

RECURSIVE Match(_, _)
Outlet(ms, matchId) ==
  IF childMatchId(ms, matchId) = Nothing THEN Shown(<<>>)
  ELSE Match(ms, childMatchId(ms, matchId))

\* the route component (or the Outlet when there is none) of match m
RouteComponent(ms, m) ==
  IF routeComponent(m.routeId) # "none"
  THEN Above(View(m, "component", routeComponent(m.routeId), NoError), Outlet(ms, m.id))
  ELSE Outlet(ms, m.id)

\* a MatchInner that renders the route component whatever the status is
MatchInnerAnyStatus(ms, m) == RouteComponent(ms, m)

MatchInner(ms, m) ==
  IF m.status = "error" THEN Thrown(m.error)
  ELSE IF m.status = "pending"
  THEN (IF m.showPending
        THEN Shown(<<View(m, "pendingElement", "pendingComponent", NoError)>>)
        ELSE Thrown(Suspends))
  ELSE IF m.status = "success" THEN RouteComponent(ms, m)
  ELSE Thrown(InvariantFailed)

Match(ms, matchId) ==
  IF ThrowsGlobalNotFound(ms, ms[FindIndex(ms, matchId)].routeId)
  THEN Thrown("globalNotFound")
  ELSE ResolvedSuspenseBoundary(ms[FindIndex(ms, matchId)],
         ResolvedCatchBoundary(ms[FindIndex(ms, matchId)],
           ResolvedNotFoundBoundary(ms[FindIndex(ms, matchId)],
             MatchInner(ms, ms[FindIndex(ms, matchId)]))))

\* the id in a view of the boundary of Matches, which belongs to no match
NoMatchId == <<-2, "">>

\* the built-in ErrorComponent of the boundary that Matches puts around the root
RouterError(error) ==
  [id |-> NoMatchId, routeId |-> rootRouteId, shows |-> "errorComponent",
   component |-> "ErrorComponent", error |-> error]

Matches(s) ==
  IF getRenderedMatches(s) = <<>> THEN <<>>
  ELSE CatchBoundary(RouterError(Match(getRenderedMatches(s), getRenderedMatches(s)[1].id).thrown),
                     FALSE,
                     Match(getRenderedMatches(s), getRenderedMatches(s)[1].id)).shown

\* the matches router.state can hold: status, error and showPending of a match
Faces ==
  {[status |-> "success", error |-> NoError, showPending |-> FALSE],
   [status |-> "pending", error |-> NoError, showPending |-> FALSE],
   [status |-> "pending", error |-> NoError, showPending |-> TRUE],
   [status |-> "error", error |-> "error", showPending |-> FALSE],
   [status |-> "error", error |-> "notFound", showPending |-> FALSE],
   [status |-> "error", error |-> "globalNotFound", showPending |-> FALSE]}

PendingFaces == {f \in Faces : f.status = "pending"}

\* the match of the route at depth p - 1 of the chain; the matches of a pending
\* location differ from the committed ones below the root
MatchOf(p, params, face) ==
  [id |-> <<p - 1, IF p = 1 THEN "" ELSE params>>, routeId |-> p - 1,
   status |-> face.status, error |-> face.error, showPending |-> face.showPending]

\* the match that records a path no route matched
GlobalNotFoundMatch ==
  [id |-> <<throwGlobalNotFoundRouteId, "">>, routeId |-> throwGlobalNotFoundRouteId,
   status |-> "success", error |-> NoError, showPending |-> FALSE]

Chains(params, faces) ==
  UNION {{[p \in 1..n |-> MatchOf(p, params, f[p])] : f \in [1..n -> faces]} : n \in 0..MaxMatches}

CommittedChains ==
  Chains("a", Faces) \cup {Append(ms, GlobalNotFoundMatch) : ms \in Chains("a", Faces) \ {<<>>}}

PendingChains == Chains("b", PendingFaces)

\* a route with its component, wrapped in Suspense, and no boundary option
NoOptions ==
  [notFoundComponent |-> FALSE, errorComponent |-> FALSE, component |-> TRUE,
   wrapInSuspense |-> TRUE]

\* the options of the routes; the route of the marker has none
OptionsOfRoutes ==
  {[r \in RouteIds \cup {throwGlobalNotFoundRouteId} |->
      IF r = throwGlobalNotFoundRouteId THEN NoOptions ELSE o[r]] :
     o \in [RouteIds -> [notFoundComponent : BOOLEAN, errorComponent : BOOLEAN,
                         component : {TRUE}, wrapInSuspense : {TRUE}]]}

MatchesStart ==
  /\ routeOptions \in OptionsOfRoutes
  /\ routerOptions \in [defaultErrorComponent : BOOLEAN, notFoundRoute : BOOLEAN,
                        defaultComponent : {FALSE}]
  /\ state \in [matches : CommittedChains, pendingMatches : {Undefined}]
  /\ stale = TRUE
  /\ renderedMatches = <<>>
  /\ elements = <<>>
  /\ outletContext = NoContext
  /\ outletChild = <<>>

\* a navigation is pending: routes with a component and no other option
PendingStart ==
  /\ routeOptions = [r \in RouteIds \cup {throwGlobalNotFoundRouteId} |-> NoOptions]
  /\ routerOptions = [defaultErrorComponent |-> FALSE, notFoundRoute |-> FALSE,
                      defaultComponent |-> FALSE]
  /\ state \in [matches : CommittedChains,
                pendingMatches : {Undefined} \cup {<<ms>> : ms \in PendingChains}]
  /\ stale = TRUE
  /\ renderedMatches = <<>>
  /\ elements = <<>>
  /\ outletContext = NoContext
  /\ outletChild = <<>>

\* a status that is none of 'pending', 'success', 'error'
IdleFace == [status |-> "idle", error |-> NoError, showPending |-> FALSE]

\* routes with and without a component, a router with and without a
\* defaultComponent, and matches of every status
InnerStart ==
  /\ routeOptions \in
       {[r \in RouteIds \cup {throwGlobalNotFoundRouteId} |->
           IF r = throwGlobalNotFoundRouteId THEN NoOptions
           ELSE [NoOptions EXCEPT !.component = c[r]]] : c \in [RouteIds -> BOOLEAN]}
  /\ routerOptions \in [defaultErrorComponent : {FALSE}, notFoundRoute : {FALSE},
                        defaultComponent : BOOLEAN]
  /\ state \in [matches : Chains("a", Faces \cup {IdleFace}), pendingMatches : {Undefined}]
  /\ stale = TRUE
  /\ renderedMatches = <<>>
  /\ elements = <<>>
  /\ outletContext = NoContext
  /\ outletChild = <<>>

\* React renders <Matches />
RenderMatches ==
  /\ stale
  /\ renderedMatches' = getRenderedMatches(state)
  /\ elements' = Matches(state)
  /\ stale' = FALSE
  /\ UNCHANGED <<routeOptions, routerOptions, state, outletContext, outletChild>>
  /\ UNCHANGED <<treeVars, genVars, blockVars, transVars, parentVars>>

\* the pending-display delay of a pending match elapses while it still loads
ShowPending(p) ==
  /\ state.pendingMatches # Undefined
  /\ p \in 1..Len(state.pendingMatches[1])
  /\ state.pendingMatches[1][p].status = "pending"
  /\ ~state.pendingMatches[1][p].showPending
  /\ state' = [state EXCEPT !.pendingMatches[1][p].showPending = TRUE]
  /\ stale' = TRUE
  /\ UNCHANGED <<routeOptions, routerOptions, renderedMatches, elements, outletContext,
                 outletChild>>
  /\ UNCHANGED <<treeVars, genVars, blockVars, transVars, parentVars>>

\* the ids of the matches of a list
IdsOf(ms) == {ms[p].id : p \in 1..Len(ms)}

\* the committed matches all rendered with success
SuccessFaces == {f \in Faces : f.status = "success"}

\* an Outlet is mounted below the provider of a committed or of a pending
\* match, or outside of every provider, while a navigation is pending
OutletStart ==
  /\ routeOptions = [r \in RouteIds \cup {throwGlobalNotFoundRouteId} |-> NoOptions]
  /\ routerOptions = [defaultErrorComponent |-> FALSE, notFoundRoute |-> FALSE,
                      defaultComponent |-> FALSE]
  /\ state \in [matches : Chains("a", SuccessFaces),
                pendingMatches : {Undefined} \cup {<<ms>> : ms \in PendingChains}]
  /\ stale = TRUE
  /\ renderedMatches = <<>>
  /\ elements = <<>>
  /\ outletContext \in {NoContext} \cup IdsOf(state.matches)
                      \cup (IF state.pendingMatches = Undefined THEN {}
                            ELSE IdsOf(state.pendingMatches[1]))
  /\ outletChild = <<>>

\* the store changed (or the Outlet mounts): the selector of the Outlet runs on
\* router.state with the context id the Outlet has, and the Outlet renders the
\* Match of the id selected, or null
RenderOutlet ==
  /\ outletChild # << [matches |-> getRenderedMatches(state),
                       child |-> childMatchId(getRenderedMatches(state), outletContext)] >>
  /\ outletChild' = << [matches |-> getRenderedMatches(state),
                        child |-> childMatchId(getRenderedMatches(state), outletContext)] >>
  /\ UNCHANGED <<routeOptions, routerOptions, state, stale, renderedMatches, elements,
                 outletContext>>
  /\ UNCHANGED <<treeVars, genVars, blockVars, transVars, parentVars>>

MatchesNext == RenderMatches

OutletNext ==
  \/ RenderMatches
  \/ RenderOutlet
  \/ \E p \in 1..MaxMatches : ShowPending(p)

PendingNext ==
  \/ RenderMatches
  \/ \E p \in 1..MaxMatches : ShowPending(p)

(***************************************************************************)
(* The Transitioner.  A location is an object: navigation n makes location *)
(* n, the router starts at location 0.  The render of the Transitioner and *)
(* its layout effects are one step; the effect on [isTransitioning] runs   *)
(* after the render and before the next one.                               *)
(***************************************************************************)
MaxLocations == 2

\* the location the router starts at, and an object that is a copy of it
StartLocation == 0
StartLocationCopy == -1

InitialStores ==
  {[isLoading |-> FALSE, isTransitioning |-> FALSE, location |-> StartLocation,
    resolvedLocation |-> r] : r \in {StartLocation, StartLocationCopy}}

NotRendered == [routerState |-> [isLoading |-> FALSE, isTransitioning |-> FALSE,
                                 location |-> StartLocation, resolvedLocation |-> StartLocation],
                isTransitioning |-> FALSE]

TransStart ==
  /\ hasUseTransition \in BOOLEAN
  /\ store \in InitialStores
  /\ mounted = FALSE
  /\ isPending = FALSE
  /\ rendered = NotRendered
  /\ transitioningDue = FALSE
  /\ loading = FALSE
  /\ navigations = 0
  /\ commits = <<>>
  /\ emitted = <<>>

\* the condition of the layout effect that emits 'onResolved'; the conditional
\* operator binds weaker than &&, so the tests of isLoading and of the locations
\* belong to its else branch
ShouldEmit(routerState, isTransitioning) ==
  IF hasUseTransition
  THEN routerState.isTransitioning /\ ~isTransitioning
  ELSE TRUE /\ ~routerState.isLoading
            /\ routerState.resolvedLocation # routerState.location

\* router.emit({ type: 'onResolved', fromLocation, toLocation }), with the store
\* as the effect found it
OnResolved(routerState) ==
  [fromLocation |-> routerState.resolvedLocation, toLocation |-> routerState.location,
   before |-> store]

\* router.__store.setState((s) => ({...s, isTransitioning: false, resolvedLocation: s.location}))
Resolved(s) == [s EXCEPT !.isTransitioning = FALSE, !.resolvedLocation = s.location]

\* router.load() up to its first await: the location is taken and loading begins
LoadStarted(s, next) == [s EXCEPT !.isLoading = TRUE, !.location = next]

\* the layout effect on the rendered routerState and isTransitioning
EmitEffect(routerState, isTransitioning, s) ==
  IF ShouldEmit(routerState, isTransitioning) THEN Resolved(s) ELSE s

\* useTransition(): isTransitioning as the render sees it
UseTransition == hasUseTransition /\ isPending

\* the Transitioner has rendered the store and isTransitioning as they are: a
\* change of either is rendered before the next event is handled
UpToDate == rendered = [routerState |-> store, isTransitioning |-> UseTransition]

\* the first render and its layout effects: the 'onResolved' effect, then tryLoad()
Mount ==
  /\ ~mounted
  /\ mounted' = TRUE
  /\ rendered' = [routerState |-> store, isTransitioning |-> FALSE]
  /\ emitted' = IF ShouldEmit(store, FALSE) THEN Append(emitted, OnResolved(store)) ELSE emitted
  /\ store' = LoadStarted(EmitEffect(store, FALSE, store), StartLocation)
  /\ isPending' = hasUseTransition
  /\ loading' = TRUE
  /\ UNCHANGED <<hasUseTransition, transitioningDue, navigations, commits>>
  /\ UNCHANGED <<treeVars, genVars, blockVars, matchVars, parentVars>>

\* a later render, when the picked state or isTransitioning changed, and the
\* 'onResolved' layout effect
RenderTransitioner ==
  /\ mounted
  /\ ~transitioningDue
  /\ rendered # [routerState |-> store, isTransitioning |-> UseTransition]
  /\ rendered' = [routerState |-> store, isTransitioning |-> UseTransition]
  /\ transitioningDue' = (rendered.isTransitioning # UseTransition)
  /\ emitted' = IF ShouldEmit(store, UseTransition)
                THEN Append(emitted, OnResolved(store)) ELSE emitted
  /\ store' = EmitEffect(store, UseTransition, store)
  /\ UNCHANGED <<hasUseTransition, mounted, isPending, loading, navigations, commits>>
  /\ UNCHANGED <<treeVars, genVars, blockVars, matchVars, parentVars>>

\* the effect on [isTransitioning]
TransitioningEffect ==
  /\ transitioningDue
  /\ transitioningDue' = FALSE
  /\ store' = IF rendered.isTransitioning THEN [store EXCEPT !.isTransitioning = TRUE] ELSE store
  /\ UNCHANGED <<hasUseTransition, mounted, isPending, rendered, loading, navigations,
                 commits, emitted>>
  /\ UNCHANGED <<treeVars, genVars, blockVars, matchVars, parentVars>>

\* the history changes: the subscriber calls tryLoad(), whose routerState is the
\* one of the first render (isTransitioning false), so the load is started
\* inside startReactTransition
HistoryChange ==
  /\ mounted
  /\ UpToDate
  /\ navigations < MaxLocations
  /\ navigations' = navigations + 1
  /\ isPending' = hasUseTransition
  /\ store' = LoadStarted(store, navigations + 1)
  /\ loading' = TRUE
  /\ UNCHANGED <<hasUseTransition, mounted, rendered, transitioningDue, commits, emitted>>
  /\ UNCHANGED <<treeVars, genVars, blockVars, matchVars, parentVars>>

\* the latest load commits its matches
LoadCommit ==
  /\ loading
  /\ UpToDate
  /\ loading' = FALSE
  /\ store' = [store EXCEPT !.isLoading = FALSE]
  /\ commits' = IF store.location = StartLocation THEN commits ELSE Append(commits, store.location)
  /\ UNCHANGED <<hasUseTransition, mounted, isPending, rendered, transitioningDue,
                 navigations, emitted>>
  /\ UNCHANGED <<treeVars, genVars, blockVars, matchVars, parentVars>>

\* React ends the transition, after it rendered it as pending
TransitionEnds ==
  /\ isPending
  /\ UpToDate
  /\ isPending' = FALSE
  /\ UNCHANGED <<hasUseTransition, store, mounted, rendered, transitioningDue, loading,
                 navigations, commits, emitted>>
  /\ UNCHANGED <<treeVars, genVars, blockVars, matchVars, parentVars>>

TransNext ==
  \/ Mount
  \/ RenderTransitioner
  \/ TransitioningEffect
  \/ HistoryChange
  \/ LoadCommit
  \/ TransitionEnds

(***************************************************************************)
(* The specifications.                                                     *)
(***************************************************************************)
TreeIdle ==
  /\ routeFiles = <<>>
  /\ tpc = "idle"
  /\ scanned = <<>>
  /\ preRouteNodes = <<>>
  /\ cursor = 0
  /\ build = EmptyBuild

ParentIdle ==
  /\ hpRoutes = <<>>
  /\ hpChecked = NoString
  /\ hpPath = NoString
  /\ hpCalls = 0
  /\ hpReturn = <<>>

GenIdle ==
  /\ genDir = <<>>
  /\ latestTask = 0
  /\ first = FALSE
  /\ skipMessage = FALSE
  /\ generatedRouteTree = <<>>
  /\ runs = <<>>

BlockIdle ==
  /\ blockerFn = FALSE
  /\ blockerCondition = FALSE
  /\ promises = <<>>
  /\ promise = 0
  /\ resolver = [status |-> "idle", target |-> 0]
  /\ returned = {}
  /\ updates = <<>>
  /\ effectDue = FALSE
  /\ blocker = NoBlocker
  /\ attempts = <<>>
  /\ location = 0

MatchesIdle ==
  /\ routeOptions = <<>>
  /\ routerOptions = [defaultErrorComponent |-> FALSE, notFoundRoute |-> FALSE,
                      defaultComponent |-> FALSE]
  /\ state = [matches |-> <<>>, pendingMatches |-> Undefined]
  /\ stale = FALSE
  /\ renderedMatches = <<>>
  /\ elements = <<>>
  /\ outletContext = NoContext
  /\ outletChild = <<>>

TransIdle ==
  /\ hasUseTransition = FALSE
  /\ store = [isLoading |-> FALSE, isTransitioning |-> FALSE, location |-> StartLocation,
              resolvedLocation |-> StartLocation]
  /\ mounted = FALSE
  /\ isPending = FALSE
  /\ rendered = NotRendered
  /\ transitioningDue = FALSE
  /\ loading = FALSE
  /\ navigations = 0
  /\ commits = <<>>
  /\ emitted = <<>>

TreeInit ==
  /\ TreeStart
  /\ GenIdle
  /\ BlockIdle
  /\ MatchesIdle
  /\ TransIdle
  /\ ParentIdle

ParentInit ==
  /\ ParentStart
  /\ TreeIdle
  /\ GenIdle
  /\ BlockIdle
  /\ MatchesIdle
  /\ TransIdle

GenInit ==
  /\ GenStart
  /\ TreeIdle
  /\ BlockIdle
  /\ MatchesIdle
  /\ TransIdle
  /\ ParentIdle

BlockInit ==
  /\ BlockStart
  /\ TreeIdle
  /\ GenIdle
  /\ MatchesIdle
  /\ TransIdle
  /\ ParentIdle

MatchesInit ==
  /\ MatchesStart
  /\ TreeIdle
  /\ GenIdle
  /\ BlockIdle
  /\ TransIdle
  /\ ParentIdle

PendingInit ==
  /\ PendingStart
  /\ TreeIdle
  /\ GenIdle
  /\ BlockIdle
  /\ TransIdle
  /\ ParentIdle

OutletInit ==
  /\ OutletStart
  /\ TreeIdle
  /\ GenIdle
  /\ BlockIdle
  /\ TransIdle
  /\ ParentIdle

InnerInit ==
  /\ InnerStart
  /\ TreeIdle
  /\ GenIdle
  /\ BlockIdle
  /\ TransIdle
  /\ ParentIdle

TransInit ==
  /\ TransStart
  /\ TreeIdle
  /\ GenIdle
  /\ BlockIdle
  /\ MatchesIdle
  /\ ParentIdle

SpecTree == TreeInit /\ [][TreeNext]_vars

\* a call runs to its return without yielding: no step of it waits forever
SpecParent == ParentInit /\ [][ParentNext]_vars /\ WF_vars(ParentNext)

SpecGen == GenInit /\ [][GenNext]_vars

SpecBlocker == BlockInit /\ [][BlockNext]_vars

SpecMatches == MatchesInit /\ [][MatchesNext]_vars

SpecPending == PendingInit /\ [][PendingNext]_vars

SpecInner == InnerInit /\ [][MatchesNext]_vars

SpecOutlet == OutletInit /\ [][OutletNext]_vars

SpecTransitioner == TransInit /\ [][TransNext]_vars

(***************************************************************************)
(* Claims about the tree built from the scanned files.                     *)
(***************************************************************************)
\* the route paths of the nodes handled by the run
HandledPaths == {preRouteNodes[i].routePath : i \in 1..Len(preRouteNodes)}

HasAspectFile(rp) ==
  \E i \in 1..Len(preRouteNodes) :
    preRouteNodes[i].routePath = rp /\ IsAspect(preRouteNodes[i])

HasAnchorFile(rp) ==
  \E i \in 1..Len(preRouteNodes) :
    preRouteNodes[i].routePath = rp /\ ~IsAspect(preRouteNodes[i])

VirtualNodes(rp) ==
  {i \in 1..Len(build.routeNodes) :
     build.routeNodes[i].routePath = rp /\ build.routeNodes[i].isVirtual}

\* C10: once every node is handled, a route path that has aspect files and no
\* anchor file has exactly one virtual node; a route path that has an anchor
\* file has no virtual node; and no aspect-file node is in routeNodes.
C10_VirtualNodes ==
  tpc = "done" =>
    /\ \A rp \in HandledPaths :
         /\ (HasAspectFile(rp) /\ ~HasAnchorFile(rp)) => Cardinality(VirtualNodes(rp)) = 1
         /\ HasAnchorFile(rp) => VirtualNodes(rp) = {}
    /\ \A i \in 1..Len(build.routeNodes) :
         build.routeNodes[i].isVirtual \/ ~IsAspect(build.routeNodes[i])

\* the route path the file's name stands for: the segments of the path without
\* the extension, one trailing suffix segment dropped, a trailing 'index'
\* turned into a trailing '/', and '/' when nothing is left
RoutePathOfName(filePath) ==
  LET segs == Segments(filePath)
      stripped == IF segs # <<>> /\ Last(segs) \in AspectSuffixes \cup {"route"}
                  THEN Front(segs) ELSE segs
      slashed == IF stripped # <<>> /\ Last(stripped) = "index"
                 THEN Front(stripped) \o <<"">> ELSE stripped
  IN  IF slashed = <<>> THEN <<"">> ELSE slashed

\* the name of the anchor file without a trailing 'route' segment
AnchorBase(anchor) ==
  IF Last(Segments(anchor)) = "route" THEN Front(Segments(anchor)) ELSE Segments(anchor)

\* aspect is an aspect file of the anchor file: the anchor's name followed by
\* one aspect suffix
IsAspectFileOf(aspect, anchor) ==
  /\ Last(Segments(anchor)) \notin AspectSuffixes
  /\ Last(Segments(aspect)) \in AspectSuffixes
  /\ Front(Segments(aspect)) = AnchorBase(anchor)

\* C11: the routePath of every scanned file is the path of the file without
\* its extension, with '.' as a separator, one trailing suffix segment
\* stripped, a trailing 'index' replaced by a trailing '/', and '/' when nothing
\* is left; an anchor file and each of its aspect files have the same routePath.
C11_RoutePathOfFile ==
  /\ \A i \in 1..Len(scanned) :
       scanned[i].routePath = RoutePathOfName(scanned[i].filePath)
  /\ \A i, j \in 1..Len(scanned) :
       IsAspectFileOf(scanned[j].filePath, scanned[i].filePath) =>
         scanned[j].routePath = scanned[i].routePath

\* a scan that found an anchor file with one of its aspect files, and a file
\* whose route path ends with '/'
C11_Witness ==
  /\ \E i, j \in 1..Len(scanned) :
       /\ IsAspectFileOf(scanned[j].filePath, scanned[i].filePath)
       /\ scanned[j].routePath = scanned[i].routePath
  /\ \E i \in 1..Len(scanned) :
       Len(scanned[i].routePath) > 1 /\ EndsWithSlash(scanned[i].routePath)

\* the places where registered node i hangs in the tree: 0 for the list of the
\* root's children, q for the children of registered node q
PlacesOf(i) ==
  {q \in 0..Len(build.routeNodes) :
     IF q = 0
     THEN \E k \in 1..Len(build.routeTree) : build.routeTree[k] = i
     ELSE \E k \in 1..Len(build.routeNodes[q].children) :
            build.routeNodes[q].children[k] = i}

\* how many times registered node i is listed as a child
TimesListed(i) ==
  Cardinality({k \in 1..Len(build.routeTree) : build.routeTree[k] = i})
  + Cardinality({qk \in (1..Len(build.routeNodes)) \X (1..MaxFiles) :
                   /\ qk[2] <= Len(build.routeNodes[qk[1]].children)
                   /\ build.routeNodes[qk[1]].children[qk[2]] = i})

\* the registered nodes whose routePath P is not '/' and not the root id and is
\* such that the routePath of node i starts with P + '/'
ParentCandidates(i) ==
  {q \in 1..Len(build.routeNodes) :
     /\ build.routeNodes[q].routePath # <<"">>
     /\ build.routeNodes[q].routePath # <<rootPathId>>
     /\ StartsWithSlash(build.routeNodes[i].routePath, build.routeNodes[q].routePath)}

\* the registered node made from the file
NodesOfFile(filePath) ==
  {i \in 1..Len(build.routeNodes) : build.routeNodes[i].filePath = filePath}

\* the run scans route.tsx, index.tsx and $id/route.tsx
ScenarioFiles == Range(routeFiles) = {fRoute, fIndex, fIdRoute}

\* C12: in the built tree every registered node is listed exactly once, among
\* the root's children or among the children of one parent; its parent is a
\* registered node with the longest routePath P (not '/', not the root id) such
\* that the node's routePath starts with P + '/', and the node is a child of the
\* root when there is no such node.  For route.tsx, index.tsx and $id/route.tsx
\* the tree is the root with the '/' node of route.tsx, the index node and the
\* '$id' node below it.
C12_TreeOfParents ==
  /\ \A i \in 1..Len(build.routeNodes) :
       /\ TimesListed(i) = 1
       /\ PlacesOf(i) = {build.routeNodes[i].parent}
       /\ build.routeNodes[i].parent = NoParent <=> ParentCandidates(i) = {}
       /\ build.routeNodes[i].parent # NoParent =>
            /\ build.routeNodes[i].parent \in ParentCandidates(i)
            /\ \A q \in ParentCandidates(i) :
                 StrLength(build.routeNodes[q].routePath)
                   <= StrLength(build.routeNodes[build.routeNodes[i].parent].routePath)
  /\ (ScenarioFiles /\ tpc = "done") =>
       /\ Len(build.routeNodes) = 3 /\ Len(build.routeTree) = 3
       /\ \A i \in 1..3 : build.routeNodes[i].children = <<>>
       /\ \E i \in NodesOfFile(fRoute) : build.routeNodes[i].routePath = <<"">>
       /\ \E i \in NodesOfFile(fIndex) : build.routeNodes[i].routePath = <<"">>
       /\ \E i \in NodesOfFile(fIdRoute) : build.routeNodes[i].path = <<"$id">>

\* a finished build with a node below the longer of two registered prefixes of
\* its routePath, the shorter one being the parent of the longer one
C12_Witness ==
  /\ tpc = "done"
  /\ \E i \in 1..Len(build.routeNodes) :
       /\ build.routeNodes[i].parent # NoParent
       /\ \E q \in ParentCandidates(i) :
            build.routeNodes[build.routeNodes[i].parent].parent = q

\* the tree, the registered nodes and the pieces a run builds when the scan
\* pushes the files in the given order
BuildOfOrder(order) ==
  BuildFrom(EmptyBuild, PreRouteNodes([i \in 1..Len(order) |-> RouteNodeOf(order[i])]))

\* C19: the result of a run is a function of the route files: the finished
\* build (parents, children order, virtual nodes, routePiecesByPath), and with
\* it the text, is the one every other push order of the scan gives.
C19_ScanOrderIrrelevant ==
  tpc = "done" => \A order \in ScanOrders(routeFiles) : BuildOfOrder(order) = build

\* the segments a path is made of: '' and undefined are made of none
SegmentCount(p) == IF p = NoString \/ p = <<"">> THEN 0 ELSE Len(p)

\* the route path of a node, as the list its split('/') gives
SplitOfRoutePath(routePath) == <<"">> \o routePath

ReturnsNullOrOtherNode ==
  \/ hpReturn = <<NoParent>>
  \/ /\ hpReturn[1] \in 1..Len(hpRoutes)
     /\ SplitOfRoutePath(hpRoutes[hpReturn[1]].routePath) # hpChecked
     /\ SplitOfRoutePath(hpRoutes[hpReturn[1]].routePath) # <<"", "">>
     /\ hpRoutes[hpReturn[1]].routePath # <<rootPathId>>

RecursesOnFewerSegments ==
  hpCalls' # hpCalls => SegmentCount(hpPath') < SegmentCount(hpPath)

\* C21: a call of hasParentRoute returns, for every list of route nodes and
\* every routePathToCheck (undefined, '', '/', without '/', with a trailing
\* '/'): each recursive call is made on a path of strictly fewer segments, and
\* what is returned is null or a node whose routePath is not the path checked,
\* not '/' and not the root id.
C21_HasParentRouteTerminates ==
  /\ [](hpReturn # <<>> => ReturnsNullOrOtherNode)
  /\ [][RecursesOnFewerSegments]_vars
  /\ <>(hpReturn # <<>>)

\* a path without a leading '/' and with a trailing one was checked against
\* some routes, and the call returned after recursing twice
C21_Witness ==
  /\ hpReturn # <<>>
  /\ hpCalls >= 3
  /\ hpRoutes # <<>>
  /\ Head(hpChecked) # ""
  /\ Last(hpChecked) = ""

(***************************************************************************)
(* Claims about overlapping generator() invocations.                       *)
(***************************************************************************)
\* the step calls fs.writeFile for the generated file in run t
StartsWrite(t) == runs[t].pc # "write" /\ runs'[t].pc = "write"

\* the step prints the 'Processed' message in run t
PrintsProcessed(t) == ~runs[t].processed /\ runs'[t].processed

\* the step returns from run t
Returns(t) == ~Finished(runs[t]) /\ Finished(runs'[t])

IsRerun(t) ==
  /\ t > 1
  /\ runs[t].quiet
  /\ runs[t - 1].pc = "done"
  /\ runs[t].files = runs[t - 1].files

\* C2: a completed run has written the generated file if and only if the
\* content it read differs from the content it computed; and a completed re-run
\* with unchanged route files computes the same content and writes nothing.
C2_WriteOnlyIfChanged ==
  \A t \in Runs :
    runs[t].pc = "done" =>
      /\ runs[t].wrote <=> (runs[t].routeTreeContent # runs[t].content)
      /\ IsRerun(t) => (runs[t].content = runs[t - 1].content /\ ~runs[t].wrote)

\* C13: a filesystem failure of a run rejects the promise of generator() with
\* the error, and a rejected run takes no further step, so it starts no write of
\* the generated file and leaves the file as it is; the ENOENT of a missing
\* generated file is no failure: the run goes on with no existing content.
C13_FsFailureAborts ==
  /\ [](\A t \in Runs :
         /\ runs[t].pc = "rejected" <=> runs[t].error # NoFsError
         /\ runs[t].pc = "rejected" =>
              /\ runs[t].failedAt \in {"scan", "build", "read", "mkdir", "write"}
              /\ ~runs[t].processed
              /\ runs[t].failedAt = "read" => runs[t].error # "ENOENT"
              /\ runs[t].failedAt # "write" => ~runs[t].wrote)
  /\ [][\A t \in Runs :
          /\ runs[t].pc = "rejected" => (runs'[t] = runs[t] /\ ~StartsWrite(t))
          /\ (runs[t].pc # "rejected" /\ runs'[t].pc = "rejected") =>
               generatedRouteTree' = generatedRouteTree
          /\ (runs[t].pc = "read" /\ generatedRouteTree = <<>>
                /\ runs'[t].pc \notin {"read", "rejected"}) =>
               /\ runs'[t].routeTreeContent = <<>>
               /\ latestTask = t => runs'[t].pc = "mkdir"]_vars

\* one run found no generated file and wrote it, the next one was rejected by
\* the failure of its mkdir or of its write
C13_Witness ==
  \E t, u \in Runs :
    /\ runs[t].pc = "done" /\ runs[t].routeTreeContent = <<>> /\ runs[t].wrote
    /\ runs[u].pc = "rejected" /\ runs[u].failedAt \in {"mkdir", "write"}

\* every invocation made so far has finished, none of them rejected
AllFinishedWithoutError ==
  /\ latestTask >= 1
  /\ \A t \in Runs : runs[t].pc \in {"idle", "done", "stale"}

\* C14: once all overlapping invocations have finished without error, the
\* generated file holds the content computed by the invocation with the highest
\* taskId.
C14_LatestContentWins ==
  AllFinishedWithoutError => generatedRouteTree = runs[latestTask].content

(***************************************************************************)
(* Claims about useBlocker.                                                *)
(***************************************************************************)
\* C3: every promise made by createPromise is settled by the first call of
\* proceed() or reset() on its resolver, with the verdict of that call (true for
\* proceed, false for reset), and by nothing else; later calls on the same
\* resolver leave the verdict as it is.
C3_SettledByFirstCall ==
  \A k \in 1..Len(promises) :
    /\ promises[k].settled <=> promises[k].firstCall # "none"
    /\ promises[k].settled => (promises[k].value <=> promises[k].firstCall = "proceed")

\* a promise settled by proceed() on which reset() was called afterwards, and
\* one settled by reset() on which proceed() was called afterwards
C3_Witness ==
  /\ \E k \in 1..Len(promises) :
       /\ promises[k].firstCall = "proceed" /\ promises[k].lastCall = "reset"
       /\ promises[k].settled /\ promises[k].value
  /\ \E k \in 1..Len(promises) :
       /\ promises[k].firstCall = "reset" /\ promises[k].lastCall = "proceed"
       /\ promises[k].settled /\ ~promises[k].value

\* attempt a reached a blocker registered without a blockerFn
ReachedBlocker(a) == attempts[a].awaits # NoBlocker

\* C4: with no blockerFn, a navigation attempt that reached the blocker is
\* vetoed (and the location is not the one it asked for) only if reset() settled
\* the promise it awaits, is committed only if proceed() settled it, and stays
\* unanswered as long as neither was called on that promise's resolver.
C4_AnswerIsTheVerdict ==
  \A a \in DOMAIN attempts :
    ReachedBlocker(a) =>
      /\ attempts[a].pc = "vetoed" =>
           (promises[attempts[a].awaits].firstCall = "reset" /\ location # a)
      /\ attempts[a].pc = "committed" =>
           promises[attempts[a].awaits].firstCall = "proceed"
      /\ promises[attempts[a].awaits].firstCall = "none" =>
           (attempts[a].pc = "awaiting" /\ attempts[a].answer = "none")

\* one attempt was vetoed through reset() and another committed through proceed()
C4_Witness ==
  /\ ~blockerFn
  /\ \E a \in DOMAIN attempts : ReachedBlocker(a) /\ attempts[a].pc = "vetoed"
  /\ \E a \in DOMAIN attempts :
       ReachedBlocker(a) /\ attempts[a].pc = "committed" /\ location = a

\* C15: a proceed() or reset() call made while the resolver status is 'idle' and
\* no attempt is waiting has no effect on later navigations: an attempt that
\* reached the blocker is answered only through a call made after it became
\* blocked.
C15_IdleCallHasNoEffect ==
  \A a \in DOMAIN attempts :
    (ReachedBlocker(a) /\ attempts[a].pc \in {"committed", "vetoed"}) =>
      ~promises[attempts[a].awaits].whileIdle

\* the hook is at rest: every queued update is rendered, the effect has run and
\* no attempt is about to resume on a settled promise
BlockerAtRest ==
  /\ updates = <<>>
  /\ ~effectDue
  /\ \A a \in Attempts :
       attempts[a].pc = "awaiting" => ~promises[attempts[a].awaits].settled

\* with no blockerFn and a truthy condition, at rest: the status is 'blocked'
\* exactly while an attempt waits, and the registered blocker awaits the current
\* promise, which is unsettled and is the one the returned resolver settles
BlockedWhileWaiting ==
  (~blockerFn /\ blockerCondition /\ BlockerAtRest) =>
    /\ resolver.status = "blocked" <=> \E a \in Attempts : attempts[a].pc = "awaiting"
    /\ blocker = promise
    /\ resolver.target = promise
    /\ ~promises[promise].settled

\* an attempt started at rest, with no blockerFn and a truthy condition, waits
\* on an unsettled promise
NextAttemptIsBlocked ==
  \A a \in Attempts :
    (BlockerAtRest /\ ~blockerFn /\ blockerCondition
       /\ attempts[a].pc = "idle" /\ attempts'[a].pc # "idle") =>
      (attempts'[a].pc = "awaiting" /\ ~promises[attempts'[a].awaits].settled)

\* C18: with no blockerFn and a truthy condition the status is 'blocked' from
\* the moment an attempt starts waiting until proceed() or reset() settles it and
\* 'idle' otherwise, and after each settlement a fresh unsettled promise and
\* resolver are installed and the blocker is registered again, so that the next
\* attempt is blocked again; with a blockerFn the status never becomes 'blocked'
\* and no attempt waits on the promise; with a falsy condition no blocker is
\* registered.
C18_BlockedUntilSettled ==
  /\ [](/\ BlockedWhileWaiting
        /\ blockerFn => (resolver.status = "idle"
                          /\ \A a \in Attempts : ~ReachedBlocker(a))
        /\ ~blockerCondition => blocker = NoBlocker)
  /\ [][NextAttemptIsBlocked]_vars

(***************************************************************************)
(* Claims about the rendering of the matches.                              *)
(***************************************************************************)
\* MatchInner of the match at position p runs: every match above it rendered
\* its component, and no Match on the way threw
Reached(ms, p) ==
  /\ p \in 1..Len(ms)
  /\ \A q \in 1..(p - 1) : ms[q].status = "success"
  /\ p > 1 => ~hasGlobalNotFound(ms)

\* the components of the matches above position p
ComponentsAbove(ms, p) ==
  [q \in 1..(p - 1) |->
     [id |-> ms[q].id, routeId |-> ms[q].routeId, shows |-> "component",
      component |-> "component", error |-> NoError]]

\* the route of the match at position q has a not-found component: its own,
\* or for the root the component of the notFoundRoute
HandlesNotFound(ms, q) ==
  \/ routeOptions[ms[q].routeId].notFoundComponent
  \/ (ms[q].routeId = rootRouteId /\ routerOptions.notFoundRoute)

\* the not-found component of the match at position q, showing error
NotFoundView(ms, q, error) ==
  [id |-> ms[q].id, routeId |-> ms[q].routeId, shows |-> "notFoundComponent",
   component |-> IF routeOptions[ms[q].routeId].notFoundComponent
                 THEN "route.notFoundComponent" ELSE "notFoundRoute.component",
   error |-> error]

\* the nearest position at or above p whose route handles a not-found, 0 if none
NearestNotFound(ms, p) ==
  IF \E q \in 1..p : HandlesNotFound(ms, q)
  THEN CHOOSE q \in 1..p :
         HandlesNotFound(ms, q) /\ \A r \in (q + 1)..p : ~HandlesNotFound(ms, r)
  ELSE 0

\* no error component of a route shows a not-found error
NoRouteErrorComponentForNotFound ==
  \A n \in 1..Len(elements) :
    (elements[n].shows = "errorComponent" /\ isNotFound(elements[n].error)) =>
      elements[n].id = NoMatchId

\* C5: when the rendered matches hold the global-not-found marker, every
\* non-root Match throws notFound({global: true}); a not-found component that
\* shows a global not-found is the root's (its notFoundComponent, else the
\* component of the notFoundRoute), never a non-root route's; no route's error
\* component shows it; and when the root has such a component and rendered down
\* to its Outlet, that component is what the screen shows.
C5_GlobalNotFoundAtRoot ==
  ~stale =>
    /\ \A n \in 1..Len(elements) :
         (elements[n].shows = "notFoundComponent" /\ IsGlobal(elements[n].error)) =>
           /\ elements[n].routeId = rootRouteId
           /\ elements[n] = NotFoundView(renderedMatches, 1, "globalNotFound")
           /\ HandlesNotFound(renderedMatches, 1)
    /\ hasGlobalNotFound(renderedMatches) =>
         /\ \A p \in 2..Len(renderedMatches) :
              Match(renderedMatches, renderedMatches[p].id) = Thrown("globalNotFound")
         /\ NoRouteErrorComponentForNotFound
         /\ (renderedMatches[1].status = "success" /\ HandlesNotFound(renderedMatches, 1)) =>
              elements = <<NotFoundView(renderedMatches, 1, "globalNotFound")>>

\* the marker is among the rendered matches, a non-root route has a
\* notFoundComponent, and the component of the notFoundRoute shows the not-found
C5_Witness ==
  /\ ~stale
  /\ hasGlobalNotFound(renderedMatches)
  /\ Len(renderedMatches) > 2
  /\ routeOptions[1].notFoundComponent
  /\ ~routeOptions[rootRouteId].notFoundComponent
  /\ Len(elements) = 1
  /\ elements[1].component = "notFoundRoute.component"
  /\ elements[1].error = "globalNotFound"

\* a non-global not-found is thrown by MatchInner of the match at position p
RaisesNotFound(ms, p) ==
  Reached(ms, p) /\ ms[p].status = "error" /\ ms[p].error = "notFound"

\* C6 as stated: a non-global not-found raised while rendering match i is
\* rendered by the notFoundComponent of the nearest match at or above i whose
\* route declares one, or by the root's handler if none does; and no route's
\* errorComponent is shown for it.
C6_NearestNotFoundComponent ==
  ~stale =>
    \A p \in 1..Len(renderedMatches) :
      RaisesNotFound(renderedMatches, p) =>
        /\ NoRouteErrorComponentForNotFound
        /\ IF NearestNotFound(renderedMatches, p) # 0
           THEN elements = ComponentsAbove(renderedMatches, NearestNotFound(renderedMatches, p))
                             \o <<NotFoundView(renderedMatches,
                                               NearestNotFound(renderedMatches, p), "notFound")>>
           ELSE elements = <<NotFoundView(renderedMatches, 1, "notFound")>>

\* C6 amended: as stated when a route on the chain has a notFoundComponent or
\* the router has a notFoundRoute; when there is neither, the not-found reaches
\* the boundary Matches puts around the root and the built-in ErrorComponent
\* shows it.  No route's errorComponent is shown for it in either case.
C6_NearestNotFoundOrRouterError ==
  ~stale =>
    \A p \in 1..Len(renderedMatches) :
      RaisesNotFound(renderedMatches, p) =>
        /\ NoRouteErrorComponentForNotFound
        /\ IF NearestNotFound(renderedMatches, p) # 0
           THEN elements = ComponentsAbove(renderedMatches, NearestNotFound(renderedMatches, p))
                             \o <<NotFoundView(renderedMatches,
                                               NearestNotFound(renderedMatches, p), "notFound")>>
           ELSE elements = <<RouterError("notFound")>>

\* the leaf raised a not-found, its route has no notFoundComponent but an
\* errorComponent, and the root's notFoundComponent is on the screen
C6_Witness ==
  /\ ~stale
  /\ Len(renderedMatches) = MaxMatches
  /\ RaisesNotFound(renderedMatches, MaxMatches)
  /\ routeOptions[MaxMatches - 1].errorComponent
  /\ NearestNotFound(renderedMatches, MaxMatches) = 1
  /\ elements = <<NotFoundView(renderedMatches, 1, "notFound")>>
  /\ elements[1].component = "route.notFoundComponent"

\* C7: when MatchInner of a match throws the match's error (status 'error', not
\* a not-found), the screen shows the components of the matches above it and,
\* in its place, the error component of that match's own boundary: the route's
\* errorComponent, else the router's defaultErrorComponent, else ErrorComponent.
C7_ErrorAtOwnBoundary ==
  ~stale =>
    \A p \in 1..Len(renderedMatches) :
      (Reached(renderedMatches, p) /\ renderedMatches[p].status = "error"
         /\ ~isNotFound(renderedMatches[p].error)) =>
        elements = ComponentsAbove(renderedMatches, p) \o
          <<[id |-> renderedMatches[p].id, routeId |-> renderedMatches[p].routeId,
             shows |-> "errorComponent",
             component |-> IF routeOptions[renderedMatches[p].routeId].errorComponent
                           THEN "route.errorComponent"
                           ELSE IF routerOptions.defaultErrorComponent
                           THEN "defaultErrorComponent" ELSE "ErrorComponent",
             error |-> renderedMatches[p].error]>>

\* the leaf is in error, its route has neither errorComponent nor
\* notFoundComponent while the root has both, and the leaf's boundary shows the
\* built-in ErrorComponent below the root's component
C7_Witness ==
  /\ ~stale
  /\ Len(renderedMatches) = MaxMatches
  /\ Reached(renderedMatches, MaxMatches)
  /\ renderedMatches[MaxMatches].status = "error"
  /\ renderedMatches[MaxMatches].error = "error"
  /\ routeOptions[rootRouteId].errorComponent
  /\ routeOptions[rootRouteId].notFoundComponent
  /\ ~routerOptions.defaultErrorComponent
  /\ Len(elements) = MaxMatches
  /\ elements[1].shows = "component"
  /\ elements[MaxMatches].component = "ErrorComponent"
  /\ elements[MaxMatches].id = renderedMatches[MaxMatches].id

\* C9: getRenderedMatches is state.pendingMatches when pendingMatches exists
\* and one of them has showPending, and state.matches otherwise; and what a
\* render puts on the screen is, position by position, of the one list it
\* selected.
C9_RenderedIsOneList ==
  /\ getRenderedMatches(state) =
       IF state.pendingMatches # Undefined
          /\ \E p \in 1..Len(state.pendingMatches[1]) : state.pendingMatches[1][p].showPending
       THEN state.pendingMatches[1] ELSE state.matches
  /\ ~stale =>
       /\ renderedMatches = getRenderedMatches(state)
       /\ Len(elements) <= Len(renderedMatches)
       /\ \A n \in 1..Len(elements) :
            elements[n].id = NoMatchId \/ elements[n].id = renderedMatches[n].id

\* pending matches that differ from the committed ones are on the screen
C9_Witness ==
  /\ ~stale
  /\ state.pendingMatches # Undefined
  /\ Len(state.matches) = MaxMatches
  /\ renderedMatches = state.pendingMatches[1]
  /\ renderedMatches # state.matches
  /\ Len(elements) = 1
  /\ elements[1].shows = "pendingElement"
  /\ \E p \in 2..Len(renderedMatches) : ~renderedMatches[p].showPending

\* the component MatchInner renders for a 'success' match of the route
ComponentOfRoute(routeId) ==
  IF routeOptions[routeId].component THEN "component"
  ELSE IF routerOptions.defaultComponent THEN "defaultComponent"
  ELSE "none"

\* the outcome of MatchInner for the match at position p is the one of its status
OutcomeOfStatus(ms, p) ==
  /\ ms[p].status = "error" => MatchInner(ms, ms[p]) = Thrown(ms[p].error)
  /\ (ms[p].status = "pending" /\ ms[p].showPending) =>
       MatchInner(ms, ms[p]) =
         Shown(<<View(ms[p], "pendingElement", "pendingComponent", NoError)>>)
  /\ (ms[p].status = "pending" /\ ~ms[p].showPending) =>
       MatchInner(ms, ms[p]) = Thrown(Suspends)
  /\ (ms[p].status = "success" /\ ComponentOfRoute(ms[p].routeId) # "none") =>
       MatchInner(ms, ms[p]) =
         Above(View(ms[p], "component", ComponentOfRoute(ms[p].routeId), NoError),
               Outlet(ms, ms[p].id))
  /\ (ms[p].status = "success" /\ ComponentOfRoute(ms[p].routeId) = "none") =>
       MatchInner(ms, ms[p]) = Outlet(ms, ms[p].id)
  /\ ms[p].status \notin {"error", "pending", "success"} =>
       MatchInner(ms, ms[p]) = Thrown(InvariantFailed)

\* the views that show a route component belong to 'success' matches
ComponentsOnlyOfSuccess(ms, views) ==
  \A n \in 1..Len(views) :
    views[n].shows = "component" =>
      \E p \in 1..Len(ms) : ms[p].id = views[n].id /\ ms[p].status = "success"

\* C17: MatchInner throws match.error for status 'error', returns the pending
\* element for 'pending' with showPending, throws match.loadPromise for 'pending'
\* without it, renders the route component (of the route, else the router's
\* defaultComponent, else the Outlet) for 'success' and fails the invariant for
\* any other status; no route component is rendered for a match that is not
\* 'success'.
C17_MatchInnerByStatus ==
  /\ \A p \in 1..Len(state.matches) :
       /\ OutcomeOfStatus(state.matches, p)
       /\ ComponentsOnlyOfSuccess(state.matches,
                                  MatchInner(state.matches, state.matches[p]).shown)
  /\ ~stale => ComponentsOnlyOfSuccess(renderedMatches, elements)

\* on the screen: the component of the second match below a root that has no
\* component, and the error of a match whose status is none of the three
C17_Witness ==
  /\ ~stale
  /\ Len(renderedMatches) = MaxMatches
  /\ ComponentOfRoute(rootRouteId) = "none"
  /\ renderedMatches[1].status = "success"
  /\ Len(elements) = 1
  /\ \/ (renderedMatches[2].status = "success" /\ elements[1].shows = "component"
          /\ elements[1].id = renderedMatches[2].id)
     \/ (renderedMatches[2].status = "idle" /\ elements[1].error = InvariantFailed)

\* C20: an Outlet renders the match that follows its context match in the
\* rendered matches, and nothing when its context match is the last one or is
\* not among the rendered matches.
C20_OutletRendersNextMatch ==
  \A n \in 1..Len(outletChild) :
    IF \E p \in 1..(Len(outletChild[n].matches) - 1) :
         outletChild[n].matches[p].id = outletContext
    THEN \E p \in 1..(Len(outletChild[n].matches) - 1) :
           /\ outletChild[n].matches[p].id = outletContext
           /\ outletChild[n].child = outletChild[n].matches[p + 1].id
    ELSE outletChild[n].child = Nothing

(***************************************************************************)
(* Claims about the Transitioner.                                          *)
(***************************************************************************)
\* the 'onResolved' events emitted for location l
EmittedFor(l) == {k \in 1..Len(emitted) : emitted[k].toLocation = l}

\* nothing is in flight: no load, no transition, no render and no effect is due
Settled ==
  /\ mounted
  /\ ~loading
  /\ ~isPending
  /\ ~transitioningDue
  /\ UpToDate

\* every event carries the resolved location and the location of the store
EventsCarryLocations ==
  \A k \in 1..Len(emitted) :
    /\ emitted[k].fromLocation = emitted[k].before.resolvedLocation
    /\ emitted[k].toLocation = emitted[k].before.location

\* no committed location has more than one event, and once everything settled
\* each has one
OncePerCommit ==
  \A i \in 1..Len(commits) :
    /\ Cardinality(EmittedFor(commits[i])) <= 1
    /\ Settled => Cardinality(EmittedFor(commits[i])) = 1

\* the step that emits leaves resolvedLocation = location and isTransitioning false
EmissionResolves ==
  emitted' # emitted =>
    (store'.resolvedLocation = store'.location /\ ~store'.isTransitioning)

\* C8: every committed location change gets exactly one 'onResolved' event, from
\* the location resolved before to the committed location, and the step that
\* emits it leaves resolvedLocation = location and isTransitioning = false.
C8_OnResolvedOncePerCommit ==
  /\ [](EventsCarryLocations /\ OncePerCommit)
  /\ [][EmissionResolves]_vars

\* C16: no 'onResolved' event is emitted while routerState.isLoading is true,
\* and none whose fromLocation and toLocation are the same object, with and
\* without React.useTransition.
C16_NoEmitWhileLoadingOrResolved ==
  \A k \in 1..Len(emitted) :
    /\ ~emitted[k].before.isLoading
    /\ emitted[k].fromLocation # emitted[k].toLocation

====
